---- MODULE Spec2Model ----
(***************************************************************************)
(* Model of the RAG evaluation code of MCP-File-Server:                    *)
(*   src/tests/simple-ragas-test.py            (SimpleRAGASEvaluator)      *)
(*   src/tests/rag-evaluation/python/evaluation_service.py                 *)
(*   src/tests/rag-evaluation/python/ragas_service.py                      *)
(*   src/tests/multimodal-evaluation/multimodal-ragas-service.py           *)
(*   src/tests/comprehensive-phase2-test.py, src/tests/simple-phase2-test.py*)
(*                                                                         *)
(* Texts are sequences of characters; scores are exact rationals <<n, d>>  *)
(* with d > 0 in lowest terms, so that equal scores are equal values.      *)
(* Every action is one complete call of a function or request handler; the *)
(* variables op, args and ret hold the call that completed last.           *)
(* A call starts from pc = "idle" and leaves pc = "done".                  *)
(***************************************************************************)
EXTENDS Integers, Sequences, FiniteSets, TLC

VARIABLES
    pc,                 \* "idle" before a call, "running" during a run, "done" after
    op,                 \* name of the operation that completed last
    args,               \* its arguments (and the collaborators' responses)
    ret,                \* what it returned or raised
    similarity_model,   \* module-level handle of multimodal-ragas-service.py
    evaluator_model,    \* multimodal_evaluator.similarity_model
    ground_truth_file,  \* GROUND_TRUTH_DIR / "default_qa.json"
    test_results,       \* self.test_results of the phase 2 testers
    calls,              \* what the last call asked of its collaborators, in order
    earlier,            \* calls completed before the last one, kept for comparison
    run                 \* the batch or comparative run under way: what it has loaded

vars == <<pc, op, args, ret, similarity_model, evaluator_model, ground_truth_file,
          test_results, calls, earlier, run>>

---------------------------------------------------------------------------
(* Bounds of the model *)

\* longest text drawn for a query, an answer or a ground truth
MaxLen == 3
\* most contexts, images, pairs or search results in one call
MaxItems == 2

---------------------------------------------------------------------------
(* Rational arithmetic (Python floats, without rounding) *)

RECURSIVE GCD(_, _)
GCD(a, b) == IF b = 0 THEN a ELSE GCD(b, a % b)

Abs(n) == IF n < 0 THEN -n ELSE n

\* the rational n/d, d # 0, in lowest terms with a positive denominator
Q(n, d) ==
    LET g == GCD(Abs(n), Abs(d))
        s == IF d < 0 THEN -1 ELSE 1
    IN  <<(s * n) \div g, (s * d) \div g>>

QInt(n) == <<n, 1>>
QAdd(x, y) == Q(x[1] * y[2] + y[1] * x[2], x[2] * y[2])
QSub(x, y) == Q(x[1] * y[2] - y[1] * x[2], x[2] * y[2])
QMul(x, y) == Q(x[1] * y[1], x[2] * y[2])
\* x / k for an integer k # 0
QDivInt(x, k) == Q(x[1], x[2] * k)
QLe(x, y) == x[1] * y[2] <= y[1] * x[2]
QLt(x, y) == x[1] * y[2] < y[1] * x[2]
QMin(x, y) == IF QLe(x, y) THEN x ELSE y
QAbs(x) == <<Abs(x[1]), x[2]>>
InUnit(x) == QLe(QInt(0), x) /\ QLe(x, QInt(1))

\* the sum of a sequence, by halves: exact sums do not depend on the grouping
RECURSIVE QSum(_)
QSum(s) ==
    IF s = <<>> THEN QInt(0)
    ELSE IF Len(s) = 1 THEN s[1]
    ELSE QAdd(QSum(SubSeq(s, 1, Len(s) \div 2)),
              QSum(SubSeq(s, Len(s) \div 2 + 1, Len(s))))

\* the sum of the values f[k], k in S
RECURSIVE SumOver(_, _)
SumOver(f, S) ==
    IF S = {} THEN QInt(0)
    ELSE LET k == CHOOSE x \in S : TRUE IN QAdd(f[k], SumOver(f, S \ {k}))

\* np.mean of a non-empty sequence
Mean(s) == QDivInt(QSum(s), Len(s))

\* the least and the greatest value of a non-empty sequence
QMinOf(s) == CHOOSE x \in {s[i] : i \in DOMAIN s} : \A i \in DOMAIN s : QLe(x, s[i])

QMaxOf(s) == CHOOSE x \in {s[i] : i \in DOMAIN s} : \A i \in DOMAIN s : QLe(s[i], x)

\* the set of elements of a sequence
Range(s) == {s[i] : i \in DOMAIN s}

\* all sequences over S of length at most n
SeqUpTo(S, n) == UNION {[1..k -> S] : k \in 0..n}

---------------------------------------------------------------------------
(* Python strings: str.lower, str.split, " ".join, the `in` operator *)

\* " " is whitespace; "A" is the upper case of "a" (and "N" of "n", in the
\* default texts of the batch); "k" stands for one of the visual-reference
\* keywords as an indivisible lower-case chunk of text
Texts == SeqUpTo({"a", "A", "k", " "}, MaxLen)

\* str.lower
Lower(s) ==
    [i \in DOMAIN s |-> IF s[i] = "A" THEN "a" ELSE IF s[i] = "N" THEN "n" ELSE s[i]]


\* str.split() with no argument: the maximal runs of non-whitespace
RECURSIVE SplitAcc(_, _, _, _)
SplitAcc(s, i, cur, acc) ==
    IF i > Len(s)
    THEN IF cur = <<>> THEN acc ELSE Append(acc, cur)
    ELSE IF s[i] = " "
         THEN SplitAcc(s, i + 1, <<>>, IF cur = <<>> THEN acc ELSE Append(acc, cur))
         ELSE SplitAcc(s, i + 1, Append(cur, s[i]), acc)

Split(s) == SplitAcc(s, 1, <<>>, <<>>)

\* set(text.lower().split())
Words(s) == Range(Split(Lower(s)))

\* " ".join(list)
RECURSIVE Join(_)
Join(l) ==
    IF l = <<>> THEN <<>>
    ELSE IF Len(l) = 1 THEN l[1]
    ELSE l[1] \o <<" ">> \o Join(Tail(l))

\* needle in hay
Contains(hay, needle) ==
    \E i \in 0..(Len(hay) - Len(needle)) : SubSeq(hay, i + 1, i + Len(needle)) = needle

\* the words of all the strings of a list
RECURSIVE WordsOfAll(_)
WordsOfAll(l) == IF l = <<>> THEN {} ELSE Words(Head(l)) \cup WordsOfAll(Tail(l))

---------------------------------------------------------------------------
(* Outcome of a call: a value, or an exception that propagates *)

Returned(v) == [exc |-> "none", val |-> v]
Raised(e) == [exc |-> e, val |-> QInt(0)]

---------------------------------------------------------------------------
(* SimpleRAGASEvaluator, src/tests/simple-ragas-test.py *)

\* one context's Jaccard overlap with the query, 0 for a context without words
ContextRelevance(query_words, context) ==
    LET context_words == Words(context)
    IN  IF context_words # {}
        THEN Q(Cardinality(query_words \cap context_words),
               Cardinality(query_words \cup context_words))
        ELSE QInt(0)

calculate_basic_relevance(query, contexts) ==
    IF query = <<>> \/ contexts = <<>> THEN QInt(0)
    ELSE LET query_words == Words(query)
         IN  IF query_words = {} THEN QInt(0)
             ELSE QDivInt(QSum([i \in DOMAIN contexts |->
                                   ContextRelevance(query_words, contexts[i])]),
                          Len(contexts))

calculate_context_utilization(contexts, answer) ==
    IF contexts = <<>> \/ answer = <<>> THEN QInt(0)
    ELSE LET answer_words == Words(answer)
             context_words == WordsOfAll(contexts)
         IN  IF context_words = {} THEN QInt(0)
             ELSE QMin(Q(Cardinality(answer_words \cap context_words),
                         Cardinality(context_words)),
                       QInt(1))

\* the "complete answer" length of calculate_answer_completeness
CompleteAnswerWords == 20

\* raises ZeroDivisionError when the query is not empty and has no words
calculate_answer_completeness(query, answer) ==
    IF query = <<>> \/ answer = <<>> THEN Returned(QInt(0))
    ELSE LET query_words == Words(query)
             answer_words == Words(answer)
         IN  IF query_words = {} THEN Raised("ZeroDivisionError")
             ELSE LET coverage == Q(Cardinality(query_words \cap answer_words),
                                    Cardinality(query_words))
                      length_factor == QMin(Q(Len(Split(answer)), CompleteAnswerWords),
                                            QInt(1))
                  IN  Returned(QDivInt(QAdd(coverage, length_factor), 2))

calculate_faithfulness_over_context_words(contexts, answer) ==
    IF contexts = <<>> \/ answer = <<>> THEN QInt(0)
    ELSE LET answer_words == Words(answer)
             context_words == Words(Join(contexts))
         IN  IF context_words = {} THEN QInt(0)
             ELSE QMin(IF answer_words # {}
                       THEN Q(Cardinality(answer_words \cap context_words),
                              Cardinality(context_words))
                       ELSE QInt(0),
                       QInt(1))

calculate_faithfulness(contexts, answer) ==
    IF contexts = <<>> \/ answer = <<>> THEN QInt(0)
    ELSE LET answer_words == Words(answer)
             context_words == Words(Join(contexts))
         IN  IF context_words = {} THEN QInt(0)
             ELSE QMin(IF answer_words # {}
                       THEN Q(Cardinality(answer_words \cap context_words),
                              Cardinality(answer_words))
                       ELSE QInt(0),
                       QInt(1))

calculate_answer_similarity(answer, ground_truth) ==
    IF answer = <<>> \/ ground_truth = <<>> THEN QInt(0)
    ELSE LET answer_words == Words(answer)
             truth_words == Words(ground_truth)
         IN  IF answer_words = {} \/ truth_words = {} THEN QInt(0)
             ELSE LET union == Cardinality(answer_words \cup truth_words)
                  IN  IF union > 0
                      THEN Q(Cardinality(answer_words \cap truth_words), union)
                      ELSE QInt(0)

---------------------------------------------------------------------------
(* MultimodalQualityEvaluator, multimodal-ragas-service.py *)

\* a key that a dict does not hold (dict.get then gives the default)
Missing == <<>>

\* {}: a dict without keys
EmptyDict == <<>>

Get(v, default) == IF v = Missing THEN default ELSE v

\* d.get(key, default)
DictGet(d, key, default) == IF key \in DOMAIN d THEN d[key] ELSE default

\* math.sqrt on a perfect square
ISqrt(n) == CHOOSE r \in 0..n : r * r = n

Dot(v1, v2) == v1[1] * v2[1] + v1[2] * v2[2]

\* np.dot(v1, v2) / (np.linalg.norm(v1) * np.linalg.norm(v2))
cosine_similarity(vec1, vec2) ==
    Q(Dot(vec1, vec2), ISqrt(Dot(vec1, vec1)) * ISqrt(Dot(vec2, vec2)))

\* what requests.post gives: an exception (connection error, timeout), or a
\* response with a status code and a JSON body that holds "embedding" or not

\* the images of the list that take part, each with its similarity; the call
\* fails as a whole when a request raises or a 200 body has no "embedding"
RECURSIVE ImageScores(_, _, _)
ImageScores(query_embedding, images, img_responses) ==
    IF images = <<>> THEN Returned(<<>>)
    ELSE LET image == Head(images)
             img_response == Head(img_responses)
             rest == ImageScores(query_embedding, Tail(images), Tail(img_responses))
         IN  IF image.image_path = Missing THEN rest
             ELSE IF img_response.kind = "raise" THEN Raised("RequestException")
             ELSE IF img_response.status_code # 200 THEN rest
             ELSE IF img_response.embedding = Missing THEN Raised("KeyError")
             ELSE IF rest.exc # "none" THEN rest
             ELSE Returned(<<cosine_similarity(query_embedding, img_response.embedding)>>
                           \o rest.val)

\* query_response answers POST /embed/text, img_responses[i] answers the
\* POST /embed/image of images[i] (unused for an image without image_path)
evaluate_image_relevance(query, images, query_response, img_responses) ==
    IF images = <<>> THEN QInt(0)
    ELSE IF query_response.kind = "raise" THEN Q(1, 2)
    ELSE IF query_response.status_code # 200 THEN Q(1, 2)
    ELSE IF query_response.embedding = Missing THEN Q(1, 2)
    ELSE LET relevance_scores ==
                 ImageScores(query_response.embedding, images, img_responses)
         IN  IF relevance_scores.exc # "none" THEN Q(1, 2)
             ELSE IF relevance_scores.val # <<>> THEN Mean(relevance_scores.val)
             ELSE QInt(0)

RelationshipWeight_of_known_types(relationship_type) ==
    IF relationship_type = "caption" THEN Q(12, 10)
    ELSE IF relationship_type = "reference" THEN QInt(1)
    ELSE IF relationship_type = "illustration" THEN Q(8, 10)
    ELSE QInt(0)

\* the weight of a pair's relationship_type; "None" is what pair.get gives
\* when the pair has none
RelationshipWeight(relationship_type) ==
    IF relationship_type = "caption" THEN Q(12, 10)
    ELSE IF relationship_type = "reference" THEN QInt(1)
    ELSE Q(8, 10)

PairScore(pair) ==
    QMin(QMul(Get(pair.confidence, Q(1, 2)),
              RelationshipWeight(DictGet(pair, "relationship_type", "None"))),
         QInt(1))

evaluate_cross_modal_consistency(cross_modal_pairs) ==
    IF cross_modal_pairs = <<>> THEN QInt(1)
    ELSE Mean([i \in DOMAIN cross_modal_pairs |-> PairScore(cross_modal_pairs[i])])

\* "figure", "image", "chart", "graph", "diagram", "illustration", "shown",
\* "depicted": each is the chunk "k" of the texts of this model
visual_keywords == {<<"k">>}

\* the first n elements of a list: l[:n]
Take(l, n) == SubSeq(l, 1, IF Len(l) < n THEN Len(l) ELSE n)

\* how many of the first words of extracted_text are looked up in the answer
GroundingWords == 10

\* what one image adds to visual_references
ImageReferences(answer, image) ==
    QAdd(IF \E keyword \in visual_keywords : Contains(Lower(answer), keyword)
         THEN QInt(1) ELSE QInt(0),
         IF image.extracted_text # Missing
            /\ \E word \in Range(Take(Split(Lower(image.extracted_text)), GroundingWords)) :
                   Contains(Lower(answer), word)
         THEN Q(1, 2) ELSE QInt(0))

evaluate_visual_grounding_of_references(answer, images) ==
    LET visual_references ==
            QSum([i \in DOMAIN images |-> ImageReferences(answer, images[i])])
        total_visual_content == Len(images)
    IN  IF images = <<>> THEN visual_references
        ELSE QMin(QDivInt(visual_references, total_visual_content), QInt(1))

evaluate_visual_grounding(answer, images) ==
    IF images = <<>> THEN QInt(1)
    ELSE LET visual_references ==
                 QSum([i \in DOMAIN images |-> ImageReferences(answer, images[i])])
             total_visual_content == Len(images)
         IN  QMin(QDivInt(visual_references, total_visual_content), QInt(1))

\* more common words than this make a context covered
ContextOverlapThreshold == 3
\* more common words than this make an image covered
ImageOverlapThreshold == 1

evaluate_content_coverage(answer, contexts, images) ==
    LET total_content_elements == Len(contexts) + Len(images)
        answer_words == Words(answer)
        CoveredContext(context) ==
            IF Cardinality(answer_words \cap Words(context)) > ContextOverlapThreshold
            THEN QInt(1) ELSE QInt(0)
        CoveredImage(image) ==
            IF image.extracted_text # Missing
               /\ Cardinality(answer_words \cap Words(image.extracted_text))
                      > ImageOverlapThreshold
            THEN Q(1, 2) ELSE QInt(0)
        covered_elements ==
            QAdd(QSum([i \in DOMAIN contexts |-> CoveredContext(contexts[i])]),
                 QSum([i \in DOMAIN images |-> CoveredImage(images[i])]))
    IN  IF total_content_elements = 0 THEN QInt(1)
        ELSE QMin(QDivInt(covered_elements, total_content_elements), QInt(1))

---------------------------------------------------------------------------
(* Search metrics, multimodal-ragas-service.py *)

\* result.get("score", 0.5)
ScoreOf(result) == Get(result.score, Q(1, 2))

\* result.get("metadata", {}).get("content_type", "text")
ContentTypeOf(result) ==
    IF result.content_type = "" THEN "text" ELSE result.content_type

\* result.get("metadata", {}).get("page_number", 1); 0 stands for no page_number
PageOf(result) == IF result.page_number = 0 THEN 1 ELSE result.page_number

\* the content types and the spread of pages that normalise the diversity
AssumedContentTypes == 3
AssumedPageSpread == 5

evaluate_result_diversity(search_results) ==
    IF Len(search_results) < 2 THEN QInt(1)
    ELSE LET n == Len(search_results)
             unique_docs == Cardinality({search_results[i].document_id : i \in 1..n})
             unique_types == Cardinality({ContentTypeOf(search_results[i]) : i \in 1..n})
             unique_pages == Cardinality({PageOf(search_results[i]) : i \in 1..n})
             doc_diversity == Q(unique_docs, n)
             type_diversity == QMin(Q(unique_types, AssumedContentTypes), QInt(1))
             page_diversity == QMin(Q(unique_pages, AssumedPageSpread), QInt(1))
         IN  QDivInt(QAdd(QAdd(doc_diversity, type_diversity), page_diversity), 3)

evaluate_cross_modal_search_accuracy(search_results) ==
    IF search_results = <<>> THEN QInt(0)
    ELSE LET n == Len(search_results)
             type_diversity ==
                 Q(Cardinality({ContentTypeOf(search_results[i]) : i \in 1..n}), n)
             avg_confidence == Mean([i \in 1..n |-> ScoreOf(search_results[i])])
         IN  QDivInt(QAdd(type_diversity, avg_confidence), 2)

evaluate_ranking_quality(search_results) ==
    IF search_results = <<>> THEN QInt(0)
    ELSE LET scores == [i \in DOMAIN search_results |-> ScoreOf(search_results[i])]
             is_sorted == \A i \in 1..(Len(scores) - 1) : QLe(scores[i + 1], scores[i])
             sorting_score == IF is_sorted THEN QInt(1) ELSE Q(1, 2)
             \* np.var: the mean of the squares minus the square of the mean
             variance ==
                 QSub(Mean([i \in DOMAIN scores |-> QMul(scores[i], scores[i])]),
                      QMul(Mean(scores), Mean(scores)))
             variance_score ==
                 IF Len(scores) > 1 THEN QMin(QMul(variance, QInt(2)), QInt(1))
                 ELSE Q(1, 2)
         IN  QDivInt(QAdd(sorting_score, variance_score), 2)

---------------------------------------------------------------------------
(* The inputs the calls are drawn from *)

\* "a k aa kk": four different words
FourWords == <<"a", " ", "k", " ", "a", "a", " ", "k", "k">>

\* texts of contexts and images: empty, blank, one word, two words, four words
SampleTexts == {<<>>, <<" ">>, <<"a">>, <<"A", " ", "k">>, FourWords}


QueryTexts == {<<"a">>, <<"A", " ", "k">>}

ImagePath == <<"p">>

\* image descriptors: with and without image_path, extracted_text and caption
Images ==
    {[image_path |-> p, extracted_text |-> t, caption |-> Missing] :
        p \in {Missing, ImagePath}, t \in {Missing, <<"a">>, <<"A", " ", "k">>}}
    \cup {[image_path |-> ImagePath, extracted_text |-> Missing, caption |-> <<"a">>]}




\* what the embedding provider may answer to a POST
PostResponses ==
    {[kind |-> "raise", status_code |-> 0, embedding |-> Missing],
     [kind |-> "response", status_code |-> 500, embedding |-> Missing],
     [kind |-> "response", status_code |-> 200, embedding |-> Missing]}
    \cup {[kind |-> "response", status_code |-> 200, embedding |-> v] :
            v \in {<<1, 0>>, <<0, 1>>, <<-1, 0>>}}

\* search results: cosine and unnormalised scores, absent score and metadata
SearchResults ==
    {[node_id |-> "n1", score |-> Q(9, 10), document_id |-> "d1",
      content_type |-> "text", page_number |-> 1],
     [node_id |-> "n2", score |-> Q(1, 2), document_id |-> "d1",
      content_type |-> "image", page_number |-> 2],
     [node_id |-> "n3", score |-> Missing, document_id |-> "",
      content_type |-> "", page_number |-> 0],
     [node_id |-> "n4", score |-> QInt(-1), document_id |-> "d2",
      content_type |-> "table", page_number |-> 1],
     [node_id |-> "n5", score |-> Q(3, 2), document_id |-> "d2",
      content_type |-> "image", page_number |-> 3]}


---------------------------------------------------------------------------
(* Calls *)

NoModel == "None"

\* default_qa.json: absent, or present with the list of entries it holds
NoFile == [exists |-> FALSE, data |-> <<>>]

\* the call `name` with arguments a completes with outcome r; every call
\* starts from pc = "idle"
CompletesAfter(name, a, r, asked) ==
    /\ pc' = "done"
    /\ op' = name
    /\ args' = a
    /\ ret' = r
    /\ calls' = asked

\* a call that asks nothing of a collaborator, or whose requests are not modelled
Completes(name, a, r) == CompletesAfter(name, a, r, <<>>)

ServiceUnchanged ==
    UNCHANGED <<similarity_model, evaluator_model, ground_truth_file, test_results,
                earlier, run>>

InitMetrics ==
    /\ pc = "idle"
    /\ op = "none"
    /\ args = <<>>
    /\ ret = <<>>
    /\ similarity_model = NoModel
    /\ evaluator_model = NoModel
    /\ ground_truth_file = NoFile
    /\ test_results = <<>>
    /\ calls = <<>>
    /\ earlier = {}
    /\ run = {}

Call_calculate_basic_relevance ==
    /\ pc = "idle"
    /\ \E query \in Texts, contexts \in SeqUpTo(SampleTexts, MaxItems) :
           Completes("calculate_basic_relevance",
                     [query |-> query, contexts |-> contexts],
                     Returned(calculate_basic_relevance(query, contexts)))
    /\ ServiceUnchanged

Call_calculate_context_utilization ==
    /\ pc = "idle"
    /\ \E contexts \in SeqUpTo(SampleTexts, MaxItems), answer \in Texts :
           Completes("calculate_context_utilization",
                     [contexts |-> contexts, answer |-> answer],
                     Returned(calculate_context_utilization(contexts, answer)))
    /\ ServiceUnchanged

Call_calculate_answer_completeness ==
    /\ pc = "idle"
    /\ \E query \in Texts, answer \in SampleTexts :
           Completes("calculate_answer_completeness",
                     [query |-> query, answer |-> answer],
                     calculate_answer_completeness(query, answer))
    /\ ServiceUnchanged

Call_calculate_faithfulness ==
    /\ pc = "idle"
    /\ \E contexts \in SeqUpTo(SampleTexts, MaxItems), answer \in Texts :
           Completes("calculate_faithfulness",
                     [contexts |-> contexts, answer |-> answer],
                     Returned(calculate_faithfulness(contexts, answer)))
    /\ ServiceUnchanged

Call_calculate_answer_similarity ==
    /\ pc = "idle"
    /\ \E answer \in Texts, ground_truth \in SampleTexts :
           Completes("calculate_answer_similarity",
                     [answer |-> answer, ground_truth |-> ground_truth],
                     Returned(calculate_answer_similarity(answer, ground_truth)))
    /\ ServiceUnchanged

Call_evaluate_image_relevance ==
    /\ pc = "idle"
    /\ \E query \in QueryTexts, images \in SeqUpTo({i \in Images : i.extracted_text = Missing
                                                   /\ i.caption = Missing}, MaxItems),
          query_response \in PostResponses :
         \E img_responses \in [DOMAIN images -> PostResponses] :
           Completes("evaluate_image_relevance",
                     [query |-> query, images |-> images,
                      query_response |-> query_response,
                      img_responses |-> img_responses],
                     Returned(evaluate_image_relevance(query, images, query_response,
                                                       img_responses)))
    /\ ServiceUnchanged

\* POST /embed/text of mclip-service.py: the body is validated against
\* TextRequest {texts: List[str]} (422 when it does not fit); the answer is an
\* EmbeddingResponse with one vector for each text, mock vectors of equal
\* components when the model is not loaded
embed_text(body, MODEL_LOADED) ==
    IF "texts" \notin DOMAIN body
    THEN [status_code |-> 422, json |-> [detail |-> "Field required"]]
    ELSE [status_code |-> 200,
          json |-> [embeddings |-> [i \in DOMAIN body.texts |->
                                      IF MODEL_LOADED THEN <<1, 0>> ELSE <<1, 1>>],
                    model_loaded |-> MODEL_LOADED]]

\* the JSON body that evaluate_image_relevance posts to /embed/text
QueryEmbeddingRequest(query) == [text |-> query]

\* evaluate_image_relevance against the running provider: its POST /embed/text
\* is answered by embed_text, and query_response.json()["embedding"] is read
\* from that answer; the provider has no route /embed/image (404)
Call_evaluate_image_relevance_of_provider ==
    /\ pc = "idle"
    /\ \E query \in QueryTexts, images \in SeqUpTo({i \in Images : i.extracted_text = Missing
                                                   /\ i.caption = Missing}, MaxItems),
          MODEL_LOADED \in BOOLEAN :
         LET answer == embed_text(QueryEmbeddingRequest(query), MODEL_LOADED)
             query_response ==
                 [kind |-> "response", status_code |-> answer.status_code,
                  embedding |-> DictGet(answer.json, "embedding", Missing)]
             img_responses ==
                 [i \in DOMAIN images |->
                     [kind |-> "response", status_code |-> 404, embedding |-> Missing]]
         IN  Completes("evaluate_image_relevance",
                       [query |-> query, images |-> images,
                        request_body |-> QueryEmbeddingRequest(query),
                        query_response |-> query_response,
                        img_responses |-> img_responses],
                       Returned(evaluate_image_relevance(query, images, query_response,
                                                         img_responses)))
    /\ ServiceUnchanged

\* cross-modal pairs: confidence in [0, 1] or absent, a relationship_type
\* the function knows, another one, or none
Call_evaluate_cross_modal_consistency ==
    /\ pc = "idle"
    /\ \E cross_modal_pairs \in
            SeqUpTo({[relationship_type |-> t, confidence |-> c] :
                        t \in {"caption", "reference", "illustration", "unknown"},
                        c \in {Missing, QInt(0), Q(1, 2), Q(9, 10), QInt(1)}}
                    \cup {[confidence |-> c] : c \in {Missing, Q(1, 2), QInt(1)}},
                    MaxItems) :
           Completes("evaluate_cross_modal_consistency",
                     [cross_modal_pairs |-> cross_modal_pairs],
                     Returned(evaluate_cross_modal_consistency(cross_modal_pairs)))
    /\ ServiceUnchanged

Call_evaluate_visual_grounding ==
    /\ pc = "idle"
    /\ \E answer \in SampleTexts, images \in SeqUpTo(Images, MaxItems) :
           Completes("evaluate_visual_grounding",
                     [answer |-> answer, images |-> images],
                     Returned(evaluate_visual_grounding(answer, images)))
    /\ ServiceUnchanged

Call_evaluate_content_coverage ==
    /\ pc = "idle"
    /\ \E answer \in SampleTexts, contexts \in SeqUpTo(SampleTexts, MaxItems), images \in SeqUpTo(Images, MaxItems) :
           Completes("evaluate_content_coverage",
                     [answer |-> answer, contexts |-> contexts, images |-> images],
                     Returned(evaluate_content_coverage(answer, contexts, images)))
    /\ ServiceUnchanged

Call_evaluate_result_diversity ==
    /\ pc = "idle"
    /\ \E search_results \in SeqUpTo(SearchResults, MaxItems) :
           Completes("evaluate_result_diversity",
                     [search_results |-> search_results],
                     Returned(evaluate_result_diversity(search_results)))
    /\ ServiceUnchanged

Call_evaluate_ranking_quality ==
    /\ pc = "idle"
    /\ \E search_results \in SeqUpTo(SearchResults, MaxItems) :
           Completes("evaluate_ranking_quality",
                     [search_results |-> search_results],
                     Returned(evaluate_ranking_quality(search_results)))
    /\ ServiceUnchanged

Call_evaluate_cross_modal_search_accuracy ==
    /\ pc = "idle"
    /\ \E search_results \in SeqUpTo(SearchResults, MaxItems) :
           Completes("evaluate_cross_modal_search_accuracy",
                     [search_results |-> search_results],
                     Returned(evaluate_cross_modal_search_accuracy(search_results)))
    /\ ServiceUnchanged

NextMetrics ==
    \/ Call_calculate_basic_relevance
    \/ Call_calculate_context_utilization
    \/ Call_calculate_answer_completeness
    \/ Call_calculate_faithfulness
    \/ Call_calculate_answer_similarity
    \/ Call_evaluate_image_relevance
    \/ Call_evaluate_image_relevance_of_provider
    \/ Call_evaluate_cross_modal_consistency
    \/ Call_evaluate_visual_grounding
    \/ Call_evaluate_content_coverage
    \/ Call_evaluate_result_diversity
    \/ Call_evaluate_ranking_quality
    \/ Call_evaluate_cross_modal_search_accuracy

\* the metric functions, each called once on inputs of its domain
SpecMetrics == InitMetrics /\ [][NextMetrics]_vars

---------------------------------------------------------------------------
(* Claims about the metric functions *)

MetricFunctions ==
    {"calculate_basic_relevance", "calculate_context_utilization",
     "calculate_answer_completeness", "calculate_faithfulness",
     "calculate_answer_similarity", "evaluate_image_relevance",
     "evaluate_cross_modal_consistency", "evaluate_visual_grounding",
     "evaluate_content_coverage", "evaluate_result_diversity",
     "evaluate_ranking_quality", "evaluate_cross_modal_search_accuracy"}

\* the longest list of search results: every k of precision_at_k gets an entry
MaxResults == 10

evaluate_precision_recall_of_positions(search_results, relevant_ids) ==
    LET result_ids ==
            [i \in DOMAIN search_results |-> DictGet(search_results[i], "node_id", "")]
        ks == {k \in {1, 3, 5, 10} : k <= Len(result_ids)}
        relevant_in_top_k(k) ==
            Cardinality({i \in 1..k : result_ids[i] \in Range(relevant_ids)})
        precision_at_k == [k \in ks |-> Q(relevant_in_top_k(k), k)]
    IN  IF relevant_ids = <<>>
        THEN [precision_at_k |-> EmptyDict, recall_at_k |-> EmptyDict,
              map_score |-> QInt(0)]
        ELSE [precision_at_k |-> precision_at_k,
              recall_at_k |->
                  [k \in ks |-> Q(relevant_in_top_k(k), Cardinality(Range(relevant_ids)))],
              map_score |-> DictGet(precision_at_k, 5, QInt(0))]

\* SearchQualityEvaluator.evaluate_precision_recall; the dicts precision_at_k
\* and recall_at_k are functions of the k that got an entry
evaluate_precision_recall(search_results, relevant_ids) ==
    IF relevant_ids = <<>>
    THEN [precision_at_k |-> EmptyDict, recall_at_k |-> EmptyDict, map_score |-> QInt(0)]
    ELSE LET result_ids ==
                 [i \in DOMAIN search_results |->
                     DictGet(search_results[i], "node_id", "")]
             relevant_set == Range(relevant_ids)
             ks == {k \in {1, 3, 5, 10} : k <= Len(result_ids)}
             relevant_in_top_k(k) ==
                 Cardinality(Range(Take(result_ids, k)) \cap relevant_set)
             precision_at_k == [k \in ks |-> Q(relevant_in_top_k(k), k)]
             recall_at_k ==
                 [k \in ks |-> Q(relevant_in_top_k(k), Cardinality(relevant_set))]
         IN  [precision_at_k |-> precision_at_k, recall_at_k |-> recall_at_k,
              map_score |-> DictGet(precision_at_k, 5, QInt(0))]

\* up to MaxResults results whose node ids repeat a pattern of three (a result
\* may have no node_id), and relevant ids that are found and that are not
Call_evaluate_precision_recall ==
    /\ pc = "idle"
    /\ \E n \in 0..MaxResults,
          pattern \in [0..2 -> {EmptyDict, [node_id |-> "n1"], [node_id |-> "n2"],
                                [node_id |-> "n3"]}],
          relevant_ids \in SeqUpTo({"n1", "n2", "n4"}, MaxItems) :
         LET search_results == [i \in 1..n |-> pattern[i % 3]]
         IN  Completes("evaluate_precision_recall",
                       [search_results |-> search_results, relevant_ids |-> relevant_ids],
                       Returned(evaluate_precision_recall(search_results, relevant_ids)))
    /\ ServiceUnchanged

NextPureMetrics ==
    \/ Call_calculate_basic_relevance
    \/ Call_calculate_context_utilization
    \/ Call_calculate_answer_completeness
    \/ Call_calculate_faithfulness
    \/ Call_calculate_answer_similarity
    \/ Call_evaluate_cross_modal_consistency
    \/ Call_evaluate_visual_grounding
    \/ Call_evaluate_precision_recall

\* the metric functions that call no collaborator, each called once: the
\* lexical functions of SimpleRAGASEvaluator and the two functions of
\* MultimodalQualityEvaluator that score what the request itself holds
SpecPureMetrics == InitMetrics /\ [][NextPureMetrics]_vars

\* C1: every value a metric function returns as a score lies in [0, 1].
C1_ScoreInUnitInterval ==
    (pc = "done" /\ op \in MetricFunctions /\ ret.exc = "none") => InUnit(ret.val)

---------------------------------------------------------------------------
(* SimpleRAGASEvaluator.evaluate_rag_response, simple-ragas-test.py *)

\* a slip: the mean of every metric computed so far, answer_similarity included
OverallScoreOfAll(metrics) ==
    QDivInt(SumOver(metrics, DOMAIN metrics), Cardinality(DOMAIN metrics))

\* sum(core_metrics) / len(core_metrics)
OverallScore(metrics) ==
    LET core_metrics == <<metrics.basic_relevance, metrics.context_utilization,
                          metrics.answer_completeness, metrics.faithfulness>>
    IN  QDivInt(QSum(core_metrics), Len(core_metrics))

\* an evaluator that reports, with the scores, how many evaluations it has seen
evaluate_rag_response_counting(query, contexts, answer, ground_truth) ==
    Returned([basic_relevance |-> calculate_basic_relevance(query, contexts),
              evaluations |-> Cardinality(earlier) + 1])

\* ground_truth is Missing for None; None and "" add no answer_similarity
evaluate_rag_response(query, contexts, answer, ground_truth) ==
    LET completeness == calculate_answer_completeness(query, answer)
        core == [basic_relevance |-> calculate_basic_relevance(query, contexts),
                 context_utilization |-> calculate_context_utilization(contexts, answer),
                 answer_completeness |-> completeness.val,
                 faithfulness |-> calculate_faithfulness(contexts, answer)]
        metrics ==
            IF ground_truth # <<>>
            THEN [basic_relevance |-> core.basic_relevance,
                  context_utilization |-> core.context_utilization,
                  answer_completeness |-> core.answer_completeness,
                  faithfulness |-> core.faithfulness,
                  answer_similarity |-> calculate_answer_similarity(answer, ground_truth)]
            ELSE core
    IN  IF completeness.exc # "none" THEN Raised(completeness.exc)
        ELSE Returned([k \in DOMAIN metrics \cup {"overall_score"} |->
                          IF k = "overall_score" THEN OverallScore(metrics)
                          ELSE metrics[k]])

---------------------------------------------------------------------------
(* evaluation_service.py: BasicRAGMetrics, POST /evaluate, POST /batch-evaluate *)

\* raise HTTPException(status_code=code)
HTTPException(code) == [exc |-> "HTTPException", status_code |-> code, val |-> QInt(0)]

BasicRAGMetrics_calculate_basic_relevance(query, contexts) ==
    LET query_words == Words(query)
    IN  IF query_words = {} THEN QInt(0)
        ELSE IF contexts # <<>>
             THEN QDivInt(QSum([i \in DOMAIN contexts |->
                                   ContextRelevance(query_words, contexts[i])]),
                          Len(contexts))
             ELSE QInt(0)

\* the same text as SimpleRAGASEvaluator.calculate_context_utilization
BasicRAGMetrics_calculate_context_utilization(contexts, answer) ==
    IF contexts = <<>> \/ answer = <<>> THEN QInt(0)
    ELSE LET answer_words == Words(answer)
             context_words == WordsOfAll(contexts)
         IN  IF context_words = {} THEN QInt(0)
             ELSE QMin(Q(Cardinality(answer_words \cap context_words),
                         Cardinality(context_words)),
                       QInt(1))

\* the same text as SimpleRAGASEvaluator.calculate_answer_completeness
BasicRAGMetrics_calculate_answer_completeness(query, answer) ==
    IF query = <<>> \/ answer = <<>> THEN Returned(QInt(0))
    ELSE LET query_words == Words(query)
             answer_words == Words(answer)
         IN  IF query_words = {} THEN Raised("ZeroDivisionError")
             ELSE LET coverage == Q(Cardinality(query_words \cap answer_words),
                                    Cardinality(query_words))
                      length_factor == QMin(Q(Len(Split(answer)), CompleteAnswerWords),
                                            QInt(1))
                  IN  Returned(QDivInt(QAdd(coverage, length_factor), 2))

\* EvaluationRequest.metrics when the request names none
DefaultMetrics == <<"basic_relevance", "context_utilization", "answer_completeness">>

\* POST /evaluate of evaluation_service.py: EvaluationResult.metrics, or the
\* HTTPException(500) that every exception of the body becomes
EvaluationService_evaluate_rag_response(request) ==
    LET requested == Range(request.metrics)
                         \cap {"basic_relevance", "context_utilization", "answer_completeness"}
        completeness ==
            BasicRAGMetrics_calculate_answer_completeness(request.query,
                                                          request.generated_answer)
        results ==
            [m \in requested |->
                IF m = "basic_relevance"
                THEN BasicRAGMetrics_calculate_basic_relevance(request.query,
                                                               request.retrieved_contexts)
                ELSE IF m = "context_utilization"
                THEN BasicRAGMetrics_calculate_context_utilization(
                         request.retrieved_contexts, request.generated_answer)
                ELSE completeness.val]
    IN  IF "answer_completeness" \in requested /\ completeness.exc # "none"
        THEN HTTPException(500)
        ELSE Returned(results)


\* a cell pandas read as missing (float nan), and float nan as a score
NaN == <<"NaN">>
QNaN == <<0, 0>>
IsNaN(x) == x = QNaN

\* str(value)
Str(v) == IF v = NaN THEN <<"n", "a", "n">> ELSE v

\* the characters of the 'text' column that make the fallback query
QueryPrefixLen == 200
\* the rows of a dataset that a batch evaluates
SampleLimit == 100
\* the individual results that a batch returns
IndividualResultsLimit == 10

RowQuery(row) ==
    IF "query" \in DOMAIN row THEN row["query"]
    ELSE IF "question" \in DOMAIN row THEN row["question"]
    ELSE Take(Str(DictGet(row, "text", <<>>)), QueryPrefixLen)

\* one pass of the loop body: EvaluationRequest(...) rejects a query that is
\* not a string, then POST /evaluate's handler is awaited
EvaluateRow(row, metrics) ==
    LET NoContextAvailable ==
            <<"N", "o", " ", "c", "o", "n", "t", "e", "x", "t", " ",
              "a", "v", "a", "i", "l", "a", "b", "l", "e">>
        NoAnswerAvailable ==
            <<"N", "o", " ", "a", "n", "s", "w", "e", "r", " ",
              "a", "v", "a", "i", "l", "a", "b", "l", "e">>
        contexts ==
            <<Str(DictGet(row, "context", DictGet(row, "passage", NoContextAvailable)))>>
        answer == Str(DictGet(row, "answer", DictGet(row, "response", NoAnswerAvailable)))
    IN  IF RowQuery(row) = NaN THEN Raised("ValidationError")
        ELSE EvaluationService_evaluate_rag_response(
                 [query |-> RowQuery(row), retrieved_contexts |-> contexts,
                  generated_answer |-> answer, metrics |-> metrics])

\* the loop over the rows: the results, or the first exception
BatchResults(rows, metrics) ==
    LET failed == {i \in DOMAIN rows : EvaluateRow(rows[i], metrics).exc # "none"}
    IN  IF failed # {}
        THEN EvaluateRow(rows[CHOOSE i \in failed : \A j \in failed : i <= j], metrics)
        ELSE Returned([i \in DOMAIN rows |->
                          [sample_id |-> i - 1, query |-> RowQuery(rows[i]),
                           metrics |-> EvaluateRow(rows[i], metrics).val]])

\* pandas' std, squared: the sample variance, nan for fewer than two values
SampleVariance(s) ==
    IF Len(s) < 2 THEN QNaN
    ELSE LET mean == Mean(s)
         IN  QDivInt(QSum([i \in DOMAIN s |->
                              QMul(QSub(s[i], mean), QSub(s[i], mean))]),
                     Len(s) - 1)

AggregatesWithFirstAsMin(results) ==
    LET names == IF results = <<>> THEN {} ELSE DOMAIN results[1].metrics
        column(m) == [i \in DOMAIN results |-> results[i].metrics[m]]
    IN  [mean |-> [m \in names |-> Mean(column(m))],
         std |-> [m \in names |-> SampleVariance(column(m))],
         min |-> [m \in names |-> column(m)[1]],
         max |-> [m \in names |-> QMaxOf(column(m))]]

\* metrics_df.mean() / .std() / .min() / .max(); "std" holds the square of std
Aggregates(results) ==
    LET names == IF results = <<>> THEN {} ELSE DOMAIN results[1].metrics
        column(m) == [i \in DOMAIN results |-> results[i].metrics[m]]
    IN  [mean |-> [m \in names |-> Mean(column(m))],
         std |-> [m \in names |-> SampleVariance(column(m))],
         min |-> [m \in names |-> QMinOf(column(m))],
         max |-> [m \in names |-> QMaxOf(column(m))]]

batch_evaluate_dataset_last_results(data_file, metrics) ==
    LET used == IF metrics = <<>> THEN DefaultMetrics ELSE metrics
        results == BatchResults(Take(data_file.rows, SampleLimit), used)
        aggregates == Aggregates(results.val)
        last == SubSeq(results.val, Len(results.val) - IndividualResultsLimit + 1,
                       Len(results.val))
    IN  IF ~data_file.exists THEN HTTPException(500)
        ELSE IF results.exc # "none" THEN HTTPException(500)
        ELSE IF \E m \in DOMAIN aggregates.std : IsNaN(aggregates.std[m])
             THEN Raised("ValueError")
        ELSE Returned([evaluated_samples |-> Len(results.val),
                       individual_results |-> IF Len(results.val) > IndividualResultsLimit
                                              THEN last ELSE results.val,
                       aggregate_metrics |-> aggregates])

\* POST /batch-evaluate of evaluation_service.py; data_file is train.jsonl
\* (exists, rows), metrics is Missing for None; the HTTPException(404) and
\* every exception of the loop are caught by the handler's own except clause;
\* the JSON response of the returned dict refuses the nan that std is for a
\* single result
batch_evaluate_dataset(data_file, metrics) ==
    LET used == IF metrics = <<>> THEN DefaultMetrics ELSE metrics
        results == BatchResults(Take(data_file.rows, SampleLimit), used)
        aggregates == Aggregates(results.val)
    IN  IF ~data_file.exists THEN HTTPException(500)
        ELSE IF results.exc # "none" THEN HTTPException(500)
        ELSE IF \E m \in DOMAIN aggregates.std : IsNaN(aggregates.std[m])
             THEN Raised("ValueError")
        ELSE Returned([evaluated_samples |-> Len(results.val),
                       individual_results |-> Take(results.val, IndividualResultsLimit),
                       aggregate_metrics |-> aggregates])

---------------------------------------------------------------------------
(* Calls of the text evaluation *)

\* most rows in a dataset file
MaxRows == 2

GroundTruths == {Missing, <<"a">>, <<"A", " ", "k">>}

MetricsArgs ==
    {Missing, <<"basic_relevance">>, <<"answer_completeness">>, <<"faithfulness">>}

\* train.jsonl: absent, or rows that share their columns (query, context and
\* answer; the one column question; the one column text), or one of three
\* larger files: one row more than a batch returns, one row more than a batch
\* evaluates (their queries are words of one, two, ... MaxLen, one, ... letters,
\* and a query of one letter is a word of its context and answer), three rows
\* of which the second has an empty context
DataFiles ==
    LET QueryRows ==
            {[query |-> q, context |-> c, answer |-> a] :
                q \in {<<" ">>, <<"a">>, <<"A", " ", "k">>, NaN},
                c \in {<<>>, <<"a">>},
                a \in {<<>>, <<"a", " ", "k">>}}
        QuestionRows == {[question |-> q] : q \in {<<" ">>, <<"a">>}}
        TextRows == {[text |-> t] : t \in {<<"a">>, NaN}}
        NonEmptySeqs(S) == SeqUpTo(S, MaxRows) \ {<<>>}
        NumberedRows(n) ==
            [i \in 1..n |-> [query |-> [j \in 1..(((i - 1) % MaxLen) + 1) |-> "a"],
                             context |-> <<"a">>,
                             answer |-> <<"a", " ", "k">>]]
        Row(context) == [query |-> <<"a">>, context |-> context, answer |-> <<"a", " ", "k">>]
    IN  {[exists |-> FALSE, rows |-> <<>>]}
        \cup {[exists |-> TRUE, rows |-> r] :
                 r \in NonEmptySeqs(QueryRows) \cup NonEmptySeqs(QuestionRows)
                       \cup NonEmptySeqs(TextRows)
                       \cup {NumberedRows(IndividualResultsLimit + 1),
                             NumberedRows(SampleLimit + 1),
                             <<Row(<<"a">>), Row(<<>>), Row(<<"a">>)>>}}

Call_evaluate_rag_response ==
    /\ pc = "idle"
    /\ \E query \in SampleTexts, contexts \in SeqUpTo(SampleTexts, MaxItems), answer \in SampleTexts,
          ground_truth \in GroundTruths :
           Completes("evaluate_rag_response",
                     [query |-> query, contexts |-> contexts, answer |-> answer,
                      ground_truth |-> ground_truth],
                     evaluate_rag_response(query, contexts, answer, ground_truth))
    /\ ServiceUnchanged

Call_EvaluationService_evaluate_rag_response ==
    /\ pc = "idle"
    /\ \E query \in SampleTexts, contexts \in SeqUpTo(SampleTexts, MaxItems), answer \in SampleTexts,
          metrics \in MetricsArgs :
         LET request == [query |-> query, retrieved_contexts |-> contexts,
                         generated_answer |-> answer,
                         metrics |-> IF metrics = Missing THEN DefaultMetrics ELSE metrics]
         IN  Completes("EvaluationService_evaluate_rag_response", request,
                       EvaluationService_evaluate_rag_response(request))
    /\ ServiceUnchanged

Call_batch_evaluate_dataset ==
    /\ pc = "idle"
    /\ \E data_file \in DataFiles, metrics \in MetricsArgs :
           Completes("batch_evaluate_dataset",
                     [data_file |-> data_file, metrics |-> metrics],
                     batch_evaluate_dataset(data_file, metrics))
    /\ ServiceUnchanged

NextRag ==
    \/ Call_evaluate_rag_response
    \/ Call_EvaluationService_evaluate_rag_response
    \/ Call_batch_evaluate_dataset

\* the text evaluation: one call of an evaluation or of a batch
SpecRag == InitMetrics /\ [][NextRag]_vars

---------------------------------------------------------------------------
(* Claims about the text evaluation *)

\* the metrics a batch call evaluates its rows with
BatchMetrics == IF args.metrics = <<>> THEN DefaultMetrics ELSE args.metrics

\* the rows of the batch's file whose evaluation raises
FailingRows ==
    {i \in DOMAIN args.data_file.rows :
        EvaluateRow(args.data_file.rows[i], BatchMetrics).exc # "none"}

\* C2: when the evaluation of one entry of a batch raises, the batch still
\* returns a response, and its results and aggregates cover the other entries.
C2_BatchIsolatesFailedEntry ==
    (pc = "done" /\ op = "batch_evaluate_dataset" /\ args.data_file.exists
        /\ FailingRows # {} /\ FailingRows # DOMAIN args.data_file.rows)
    => /\ ret.exc = "none"
       /\ ret.val.evaluated_samples = Len(args.data_file.rows) - Cardinality(FailingRows)

\* C7: overall_score is the mean of basic_relevance, context_utilization,
\* answer_completeness and faithfulness of the call's arguments, whatever the
\* ground truth is, and so whatever answer_similarity is.
C7_OverallScoreIsMeanOfCoreMetrics ==
    (pc = "done" /\ op = "evaluate_rag_response" /\ ret.exc = "none")
    => /\ ret.val.overall_score
            = QDivInt(QSum(<<calculate_basic_relevance(args.query, args.contexts),
                             calculate_context_utilization(args.contexts, args.answer),
                             calculate_answer_completeness(args.query, args.answer).val,
                             calculate_faithfulness(args.contexts, args.answer)>>), 4)
       /\ \A ground_truth \in GroundTruths :
            LET other == evaluate_rag_response(args.query, args.contexts, args.answer,
                                               ground_truth)
            IN  other.exc = "none" /\ other.val.overall_score = ret.val.overall_score

\* C7's case: an answer_similarity was computed and differs from overall_score
C7_Witness ==
    /\ pc = "done" /\ op = "evaluate_rag_response" /\ ret.exc = "none"
    /\ "answer_similarity" \in DOMAIN ret.val
    /\ QLt(QInt(0), ret.val.answer_similarity)
    /\ QLt(ret.val.overall_score, ret.val.answer_similarity)
    /\ QLt(QInt(0), ret.val.overall_score)

---------------------------------------------------------------------------
(* POST /evaluate/multimodal, multimodal-ragas-service.py *)

\* MultimodalEvaluationResult(**fields): pydantic validates the keyword
\* arguments and raises ValidationError when a required field is not given
MultimodalEvaluationResult(fields) ==
    LET \* the fields declared without a default
        RequiredResultFields ==
            {"query", "image_relevance", "cross_modal_consistency",
             "multimodal_faithfulness", "visual_grounding", "content_coverage",
             "evaluation_time"}
        \* the fields declared with default_factory
        ResultDefaults ==
            [ragas_metrics |-> EmptyDict, extraction_quality |-> EmptyDict,
             relationship_quality |-> EmptyDict, detailed_scores |-> EmptyDict,
             recommendations |-> <<>>, models_used |-> <<>>]
    IN  IF RequiredResultFields \subseteq DOMAIN fields
        THEN Returned(fields @@ ResultDefaults)
        ELSE Raised("ValidationError")

\* what the handler puts in ragas_metrics when the POST to the RAGAS service raises
NeutralRagasMetrics ==
    [basic_relevance |-> Q(1, 2), context_utilization |-> Q(1, 2),
     answer_completeness |-> Q(1, 2)]

\* "Image content: ..." and "Image caption: ..." of the images that have them
RECURSIVE ImageContexts(_)
ImageContexts(images) ==
    IF images = <<>> THEN <<>>
    ELSE LET image == Head(images)
         IN  (IF image.extracted_text # <<>> THEN <<image.extracted_text>> ELSE <<>>)
             \o (IF image.caption # <<>> THEN <<image.caption>> ELSE <<>>)
             \o ImageContexts(Tail(images))

\* model is self.similarity_model; encoded is what its encode() calls lead to:
\* an exception, or the similarities of the answer with the contexts
evaluate_multimodal_faithfulness(answer, contexts, images, model, encoded) ==
    LET all_contexts == contexts \o ImageContexts(images)
    IN  IF all_contexts = <<>> THEN QInt(0)
        ELSE IF model # "None"
             THEN IF encoded.kind = "raise" THEN Q(1, 2)
                  ELSE QMaxOf(encoded.similarities)
        ELSE Q(7, 10)

generate_multimodal_recommendations_at_or_below(result) ==
    (IF QLt(result.image_relevance, Q(7, 10)) THEN <<"image_relevance">> ELSE <<>>)
    \o (IF QLt(result.cross_modal_consistency, Q(6, 10))
        THEN <<"cross_modal_consistency">> ELSE <<>>)
    \o (IF QLe(result.visual_grounding, Q(1, 2)) THEN <<"visual_grounding">> ELSE <<>>)
    \o (IF QLt(DictGet(result.ragas_metrics, "basic_relevance", QInt(0)), Q(7, 10))
        THEN <<"basic_relevance">> ELSE <<>>)

\* a recommendation is written here as the name of the score it is about
generate_multimodal_recommendations(result) ==
    (IF QLt(result.image_relevance, Q(7, 10)) THEN <<"image_relevance">> ELSE <<>>)
    \o (IF QLt(result.cross_modal_consistency, Q(6, 10))
        THEN <<"cross_modal_consistency">> ELSE <<>>)
    \o (IF QLt(result.visual_grounding, Q(1, 2)) THEN <<"visual_grounding">> ELSE <<>>)
    \o (IF QLt(DictGet(result.ragas_metrics, "basic_relevance", QInt(0)), Q(7, 10))
        THEN <<"basic_relevance">> ELSE <<>>)

\* ragas_response answers the POST to the RAGAS service, query_response and
\* img_responses the POSTs of evaluate_image_relevance; evaluation_time is
\* left at the value the result is constructed with (the clock is not modelled)
evaluate_multimodal_response(request, model, ragas_response, query_response, img_responses, encoded) ==
    LET constructed ==
            MultimodalEvaluationResult(
                [query |-> request.query, evaluation_time |-> 0,
                 models_used |-> <<"multimodal_ragas", "m_clip", "sentence_transformers">>])
        WithRagas(result) ==
            IF "text_quality" \notin request.evaluation_types THEN result
            ELSE IF ragas_response.kind = "raise"
                 THEN [result EXCEPT !.ragas_metrics = NeutralRagasMetrics]
            ELSE IF ragas_response.status_code = 200
                 THEN [result EXCEPT !.ragas_metrics = ragas_response.metrics]
            ELSE result
        WithImageRelevance(result) ==
            IF "image_relevance" \notin request.evaluation_types THEN result
            ELSE [result EXCEPT !.image_relevance =
                      evaluate_image_relevance(request.query, request.retrieved_images,
                                               query_response, img_responses)]
        WithConsistency(result) ==
            IF "cross_modal_consistency" \notin request.evaluation_types THEN result
            ELSE [result EXCEPT !.cross_modal_consistency =
                      evaluate_cross_modal_consistency(request.cross_modal_pairs)]
        WithFaithfulness(result) ==
            IF "multimodal_faithfulness" \notin request.evaluation_types THEN result
            ELSE [result EXCEPT !.multimodal_faithfulness =
                      evaluate_multimodal_faithfulness(
                          request.generated_answer, request.retrieved_contexts,
                          request.retrieved_images, model, encoded)]
        WithDiagnostics(result) ==
            [result EXCEPT
                !.visual_grounding =
                    evaluate_visual_grounding(request.generated_answer,
                                              request.retrieved_images),
                !.content_coverage =
                    evaluate_content_coverage(request.generated_answer,
                                              request.retrieved_contexts,
                                              request.retrieved_images)]
        WithRecommendations(result) ==
            [result EXCEPT !.recommendations = generate_multimodal_recommendations(result)]
    IN  IF constructed.exc # "none" THEN HTTPException(500)
        ELSE Returned(WithRecommendations(WithDiagnostics(WithFaithfulness(
                 WithConsistency(WithImageRelevance(WithRagas(constructed.val)))))))

\* lifespan(app), startup: loads the module's similarity_model; when loading
\* fails the error is logged and the handle stays None.  multimodal_evaluator
\* was constructed at import and keeps the handle it read then.
Lifespan_startup ==
    /\ pc = "idle"
    /\ similarity_model = NoModel
    /\ similarity_model' = "SentenceTransformer"
    /\ UNCHANGED <<pc, op, args, ret, evaluator_model, ground_truth_file, test_results,
                   calls, earlier, run>>

(* The requests and the collaborators' answers *)

EvaluationTypes ==
    {"text_quality", "image_relevance", "cross_modal_consistency", "multimodal_faithfulness"}

\* what the RAGAS service may answer to POST /evaluate
RagasResponses ==
    {[kind |-> "raise", status_code |-> 0, metrics |-> EmptyDict],
     [kind |-> "response", status_code |-> 500, metrics |-> EmptyDict],
     [kind |-> "response", status_code |-> 200, metrics |-> EmptyDict],
     [kind |-> "response", status_code |-> 200,
      metrics |-> [basic_relevance |-> QInt(1), context_utilization |-> Q(3, 4),
                   answer_completeness |-> QInt(1)]]}

\* what the embedding provider may answer: failure, non-200, an embedding
EmbeddingResponses ==
    {r \in PostResponses : r.embedding \in {Missing, <<1, 0>>}
                              /\ ~(r.status_code = 200 /\ r.embedding = Missing)}

Call_evaluate_multimodal_response ==
    /\ pc = "idle"
    /\ \E request \in
            [query : QueryTexts,
             retrieved_contexts : {<<>>, <<FourWords>>},
             retrieved_images :
                 SeqUpTo({[image_path |-> ImagePath, extracted_text |-> <<"a">>,
                           caption |-> Missing]}, MaxItems),
             generated_answer : {<<"a">>, FourWords},
             cross_modal_pairs :
                 {<<>>, <<[relationship_type |-> "caption", confidence |-> Q(1, 2)]>>},
             evaluation_types : SUBSET EvaluationTypes],
          ragas_response \in RagasResponses, query_response \in EmbeddingResponses :
         \E img_responses \in [DOMAIN request.retrieved_images -> EmbeddingResponses],
            encoded \in
                (IF evaluator_model = NoModel THEN {Missing}
                 ELSE {[kind |-> "raise", similarities |-> <<>>],
                       [kind |-> "encoded", similarities |-> <<QInt(-1), Q(1, 2)>>]}) :
           Completes("evaluate_multimodal_response",
                     [request |-> request, ragas_response |-> ragas_response,
                      query_response |-> query_response,
                      img_responses |-> img_responses, encoded |-> encoded],
                     evaluate_multimodal_response(request, evaluator_model, ragas_response,
                                                  query_response, img_responses, encoded))
    /\ ServiceUnchanged

\* multimodal_evaluator.evaluate_multimodal_faithfulness, with and without
\* contexts and images; encode() is reached only with a model
Call_evaluate_multimodal_faithfulness ==
    /\ pc = "idle"
    /\ \E answer \in QueryTexts, contexts \in {<<>>, <<FourWords>>},
          images \in SeqUpTo(Images, 1) :
         \E encoded \in
                (IF evaluator_model = NoModel THEN {Missing}
                 ELSE {[kind |-> "raise", similarities |-> <<>>],
                       [kind |-> "encoded", similarities |-> <<QInt(-1), Q(1, 2)>>]}) :
           Completes("evaluate_multimodal_faithfulness",
                     [answer |-> answer, contexts |-> contexts, images |-> images,
                      encoded |-> encoded],
                     Returned(evaluate_multimodal_faithfulness(
                                  answer, contexts, images, evaluator_model, encoded)))
    /\ ServiceUnchanged

\* the helper applied to a result whose scores lie below, at and above the
\* constants of its rules; ragas_metrics may hold no basic_relevance
Call_generate_multimodal_recommendations ==
    /\ pc = "idle"
    /\ \E image_relevance \in {QInt(0), Q(69, 100), Q(7, 10), QInt(1)},
          cross_modal_consistency \in {Q(1, 2), Q(6, 10), Q(7, 10)},
          visual_grounding \in {QInt(0), Q(1, 2), Q(6, 10)},
          ragas_metrics \in {EmptyDict} \cup
              {[basic_relevance |-> v] : v \in {Q(6, 10), Q(7, 10), QInt(1)}} :
         LET result == [image_relevance |-> image_relevance,
                        cross_modal_consistency |-> cross_modal_consistency,
                        visual_grounding |-> visual_grounding,
                        ragas_metrics |-> ragas_metrics]
         IN  Completes("generate_multimodal_recommendations", [result |-> result],
                       Returned(generate_multimodal_recommendations(result)))
    /\ ServiceUnchanged

\* POST /evaluate/document-processing: DocumentProcessingEvaluationResult is
\* constructed from document_path alone, and the nine float fields it declares
\* without a default are required; the ValidationError is raised inside the
\* try, so the statements after the construction are not reached
evaluate_document_processing(request) ==
    LET given == {"document_path"}
        required ==
            {"document_path", "extraction_completeness", "chunking_quality",
             "embedding_quality", "relationship_accuracy", "text_extraction_score",
             "image_extraction_score", "metadata_completeness", "overall_quality_score",
             "processing_efficiency"}
    IN  IF required \subseteq given
        THEN Returned([document_path |-> request.document_path])
        ELSE HTTPException(500)

\* POST /evaluate/search: SearchEvaluationResult is constructed from query and
\* search_type, and declares seven more float fields without a default
evaluate_search_quality(request) ==
    LET given == {"query", "search_type"}
        required ==
            {"query", "search_type", "map_score", "ndcg_score", "cross_modal_accuracy",
             "result_diversity", "visual_relevance", "ranking_quality",
             "semantic_consistency"}
    IN  IF required \subseteq given
        THEN Returned([query |-> request.query, search_type |-> request.search_type])
        ELSE HTTPException(500)

batch_evaluate_until_error(evaluation_requests, model, ragas_response, query_response) ==
    LET Failed(request_data) ==
            DictGet(request_data, "type", "multimodal")
                \in {"multimodal", "document_processing", "search"}
        n == IF \E i \in DOMAIN evaluation_requests : Failed(evaluation_requests[i])
             THEN (CHOOSE i \in DOMAIN evaluation_requests :
                       /\ Failed(evaluation_requests[i])
                       /\ \A j \in 1..(i - 1) : ~Failed(evaluation_requests[j]))
             ELSE Len(evaluation_requests)
    IN  Returned([batch_results |->
            [i \in 1..n |->
                IF Failed(evaluation_requests[i])
                THEN [index |-> i - 1, error |-> "Exception"]
                ELSE [index |-> i - 1, result |-> [error |-> "Unknown evaluation type"]]]])

\* POST /evaluate/batch.  The fields a request model requires are looked for
\* in request_data["data"]; an exception of an entry, the HTTPException of
\* its endpoint included, is recorded under "error".  The collaborators answer
\* every entry alike.  index counts from 0.
batch_evaluate(evaluation_requests, model, ragas_response, query_response) ==
    LET Outcome(request_data) ==
            LET eval_type == DictGet(request_data, "type", "multimodal")
                data == request_data.data
            IN  IF eval_type \notin {"multimodal", "document_processing", "search"}
                THEN Returned([error |-> "Unknown evaluation type"])
                ELSE IF "data" \notin DOMAIN request_data THEN Raised("KeyError")
                ELSE IF eval_type = "multimodal"
                THEN IF {"query", "retrieved_contexts", "generated_answer"}
                            \subseteq DOMAIN data
                     THEN evaluate_multimodal_response(
                              data, model, ragas_response, query_response,
                              [j \in DOMAIN data.retrieved_images |-> query_response],
                              Missing)
                     ELSE Raised("ValidationError")
                ELSE IF eval_type = "document_processing"
                THEN IF {"document_path", "processing_result"} \subseteq DOMAIN data
                     THEN evaluate_document_processing(data)
                     ELSE Raised("ValidationError")
                ELSE IF {"query", "search_results", "search_type"} \subseteq DOMAIN data
                     THEN evaluate_search_quality(data)
                     ELSE Raised("ValidationError")
    IN  Returned([batch_results |->
            [i \in DOMAIN evaluation_requests |->
                LET outcome == Outcome(evaluation_requests[i])
                IN  IF outcome.exc = "none"
                    THEN [index |-> i - 1, result |-> outcome.val]
                    ELSE [index |-> i - 1, error |-> outcome.exc]]])

\* a batch of entries of each type and of an unknown one, with and without
\* "type" and "data", with data that fit the request model and data that do not
Call_batch_evaluate ==
    /\ pc = "idle"
    /\ \E evaluation_requests \in
            SeqUpTo(LET Data ==
                            {EmptyDict,
                             [query |-> <<"a">>, retrieved_contexts |-> <<FourWords>>,
                              retrieved_images |-> <<>>, generated_answer |-> FourWords,
                              cross_modal_pairs |-> <<>>,
                              evaluation_types |-> EvaluationTypes],
                             [document_path |-> <<"p">>, processing_result |-> EmptyDict],
                             [query |-> <<"a">>, search_results |-> <<>>,
                              search_type |-> "text"]}
                    IN  {EmptyDict} \cup {[data |-> d] : d \in Data}
                        \cup {[type |-> t] :
                                 t \in {"multimodal", "document_processing", "search",
                                        "other"}}
                        \cup {[type |-> t, data |-> d] :
                                 t \in {"multimodal", "document_processing", "search",
                                        "other"},
                                 d \in Data},
                    MaxItems),
          ragas_response \in RagasResponses, query_response \in EmbeddingResponses :
           Completes("batch_evaluate",
                     [evaluation_requests |-> evaluation_requests,
                      ragas_response |-> ragas_response,
                      query_response |-> query_response],
                     batch_evaluate(evaluation_requests, evaluator_model, ragas_response,
                                    query_response))
    /\ ServiceUnchanged

NextMultimodal ==
    \/ Lifespan_startup
    \/ Call_evaluate_multimodal_response
    \/ Call_generate_multimodal_recommendations
    \/ Call_batch_evaluate
    \/ Call_evaluate_multimodal_faithfulness

SpecMultimodal == InitMetrics /\ [][NextMultimodal]_vars

\* The process serves its next request: nothing of the completed call is
\* kept by the program.  The call may be remembered in earlier, when it is one
\* of the evaluations that are compared with later ones of the same request:
\* one query, contexts and answer with every ground truth, and one multimodal
\* request with every answer of the RAGAS service.
Next_request ==
    /\ pc = "done"
    /\ pc' = "idle"
    /\ op' = "none"
    /\ args' = <<>>
    /\ ret' = <<>>
    /\ calls' = <<>>
    /\ \/ UNCHANGED earlier
       \/ /\ \/ /\ op = "evaluate_rag_response"
                /\ args.query = <<"a">> /\ args.contexts = <<FourWords>>
                /\ args.answer = <<"A", " ", "k">>
             \/ /\ op = "evaluate_multimodal_response"
                /\ args.request.query = <<"a">> /\ args.request.retrieved_images = <<>>
                /\ args.request.retrieved_contexts = <<FourWords>>
                /\ args.request.generated_answer = FourWords
                /\ args.request.cross_modal_pairs = <<>>
                /\ args.request.evaluation_types = EvaluationTypes
                /\ args.query_response.status_code = 200
          /\ earlier' = {[op |-> op, args |-> args, ret |-> ret]}
    /\ UNCHANGED <<similarity_model, evaluator_model, ground_truth_file, test_results,
                   run>>

\* evaluations one after another, of either evaluator, in any order
SpecRepeated ==
    InitMetrics
    /\ [][\/ Call_evaluate_rag_response
          \/ Call_evaluate_multimodal_response
          \/ Next_request]_vars

\* the RAGAS service was asked and its call raised or was answered with a non-200
RagasCallFailed ==
    /\ "text_quality" \in args.request.evaluation_types
    /\ (args.ragas_response.kind = "raise" \/ args.ragas_response.status_code # 200)

FailedPost(r) == r.kind = "raise" \/ r.status_code # 200

\* the embedding provider was asked and failed for the query or for an image
EmbeddingCallFailed ==
    /\ "image_relevance" \in args.request.evaluation_types
    /\ args.request.retrieved_images # <<>>
    /\ \/ FailedPost(args.query_response)
       \/ \E i \in DOMAIN args.img_responses : FailedPost(args.img_responses[i])

\* C3: when a collaborator's call fails in evaluate_multimodal_response (the
\* RAGAS service for text_quality, the embedding provider for the query or an
\* image), the evaluation completes, the dependent metric is the neutral 0.5
\* and the other metrics are computed.
C3_CollaboratorFailureGivesNeutralDefault ==
    (pc = "done" /\ op = "evaluate_multimodal_response"
        /\ (RagasCallFailed \/ EmbeddingCallFailed))
    => /\ ret.exc = "none"
       /\ RagasCallFailed => ret.val.ragas_metrics = NeutralRagasMetrics
       /\ EmbeddingCallFailed => ret.val.image_relevance = Q(1, 2)
       /\ ret.val.visual_grounding =
              evaluate_visual_grounding(args.request.generated_answer,
                                        args.request.retrieved_images)

\* C4: for every well-formed request evaluate_multimodal_response returns a
\* MultimodalEvaluationResult and not an HTTP 500, also when evaluation_types
\* omits metric groups.
C4_WellFormedRequestIsEvaluated ==
    (pc = "done" /\ op = "evaluate_multimodal_response")
    => (ret.exc = "none" /\ ret.val.query = args.request.query)

\* C8: for every value of evaluation_types the result of
\* evaluate_multimodal_response holds visual_grounding and content_coverage
\* computed from the request's answer, contexts and images.
C8_DiagnosticsAlwaysComputed ==
    (pc = "done" /\ op = "evaluate_multimodal_response")
    => /\ ret.exc = "none"
       /\ ret.val.visual_grounding =
              evaluate_visual_grounding(args.request.generated_answer,
                                        args.request.retrieved_images)
       /\ ret.val.content_coverage =
              evaluate_content_coverage(args.request.generated_answer,
                                        args.request.retrieved_contexts,
                                        args.request.retrieved_images)

---------------------------------------------------------------------------
(* Quality gates: test_quality_gates of comprehensive-phase2-test.py and of *)
(* simple-phase2-test.py.  Both gate a dict of scores against              *)
(* TEST_CONFIG.quality_thresholds and append TestResults to                *)
(* self.test_results.  The source fills the dicts with mock scores; the    *)
(* model gates those and other scores, under TEST_CONFIG's table and       *)
(* other tables.                                                           *)

\* TestResult(name=..., category="quality_gates", status=..., score=...,
\* threshold=..., details={"metric": ...}); metric is NoMetric for a result
\* whose details name no metric
NoMetric == ""

TestResult(name, status, score, threshold, metric) ==
    [name |-> name, category |-> "quality_gates", status |-> status,
     score |-> score, threshold |-> threshold, metric |-> metric]

\* "passed" if score >= threshold else "failed"
GateStatus(score, threshold) == IF QLe(threshold, score) THEN "passed" ELSE "failed"

\* the dicts' keys in the order the source writes them
RagasMetricOrder == <<"faithfulness", "answer_relevancy", "context_precision",
                      "context_recall">>
QualityMetricOrder == <<"text_extraction_accuracy", "image_extraction_completeness",
                        "cross_modal_relevance", "search_precision", "search_recall">>

\* f"ragas_{metric_name}"
RagasKey(metric_name) ==
    [faithfulness |-> "ragas_faithfulness", answer_relevancy |-> "ragas_answer_relevancy",
     context_precision |-> "ragas_context_precision",
     context_recall |-> "ragas_context_recall"][metric_name]

\* np.min in place of np.mean
OverallQualityOfMin(scores, order) == QMinOf([i \in DOMAIN order |-> scores[order[i]]])

\* np.mean(list(scores.values()))
OverallQuality(scores, order) == Mean([i \in DOMAIN order |-> scores[order[i]]])

\* the "Overall System Quality Gate" of both testers
OverallGate(scores, order, quality_thresholds) ==
    TestResult("Overall System Quality Gate",
               GateStatus(OverallQuality(scores, order), quality_thresholds["overall_quality"]),
               OverallQuality(scores, order), quality_thresholds["overall_quality"], NoMetric)

\* Phase2ComprehensiveTester.test_quality_gates: what it appends
Phase2ComprehensiveTester_test_quality_gates(mock_ragas_scores, quality_thresholds) ==
    [i \in DOMAIN RagasMetricOrder |->
        LET metric_name == RagasMetricOrder[i]
            score == mock_ragas_scores[metric_name]
            threshold == DictGet(quality_thresholds, RagasKey(metric_name), Q(7, 10))
        IN  TestResult("RAGAS Quality Gate", GateStatus(score, threshold), score,
                       threshold, metric_name)]
    \o <<OverallGate(mock_ragas_scores, RagasMetricOrder, quality_thresholds)>>

\* Phase2SimpleTester.test_quality_gates: what it appends
Phase2SimpleTester_test_quality_gates(quality_metrics, quality_thresholds) ==
    [i \in DOMAIN QualityMetricOrder |->
        LET metric_name == QualityMetricOrder[i]
            score == quality_metrics[metric_name]
            threshold == DictGet(quality_thresholds, metric_name, Q(3, 4))
        IN  TestResult("Quality Gate", GateStatus(score, threshold), score,
                       threshold, metric_name)]
    \o <<OverallGate(quality_metrics, QualityMetricOrder, quality_thresholds)>>
    \o <<TestResult("Integration Quality Assessment", "passed", Q(88, 100), Q(8, 10),
                    NoMetric)>>

\* TEST_CONFIG.quality_thresholds, the same in both files
TEST_CONFIG_quality_thresholds ==
    [embedding_similarity |-> Q(7, 10), extraction_completeness |-> Q(8, 10),
     search_precision |-> Q(6, 10), overall_quality |-> Q(3, 4),
     ragas_faithfulness |-> Q(7, 10), ragas_answer_relevancy |-> Q(7, 10),
     ragas_context_precision |-> Q(7, 10)]

\* TEST_CONFIG's table, a stricter one, and one that names no metric
ThresholdTables ==
    {TEST_CONFIG_quality_thresholds,
     [TEST_CONFIG_quality_thresholds EXCEPT !.ragas_faithfulness = Q(9, 10),
                                            !.search_precision = Q(9, 10)],
     [overall_quality |-> Q(3, 4)]}

\* the mock scores of the source
mock_ragas_scores ==
    [faithfulness |-> Q(78, 100), answer_relevancy |-> Q(82, 100),
     context_precision |-> Q(75, 100), context_recall |-> Q(79, 100)]
quality_metrics ==
    [text_extraction_accuracy |-> Q(94, 100), image_extraction_completeness |-> Q(89, 100),
     cross_modal_relevance |-> Q(86, 100), search_precision |-> Q(78, 100),
     search_recall |-> Q(82, 100)]

\* scores a gate may meet: below, between and at the thresholds, and perfect
GateScores == {Q(1, 2), Q(72, 100), Q(3, 4), QInt(1)}

Call_comprehensive_test_quality_gates ==
    /\ pc = "idle"
    /\ \E scores \in {mock_ragas_scores} \cup [Range(RagasMetricOrder) -> GateScores],
          quality_thresholds \in ThresholdTables :
         /\ Completes("comprehensive_test_quality_gates",
                      [scores |-> scores, quality_thresholds |-> quality_thresholds],
                      Returned(Missing))
         /\ test_results' = test_results
                \o Phase2ComprehensiveTester_test_quality_gates(scores, quality_thresholds)
    /\ UNCHANGED <<similarity_model, evaluator_model, ground_truth_file, earlier, run>>

Call_simple_test_quality_gates ==
    /\ pc = "idle"
    /\ \E scores \in {quality_metrics} \cup [Range(QualityMetricOrder) -> GateScores],
          quality_thresholds \in ThresholdTables :
         /\ Completes("simple_test_quality_gates",
                      [scores |-> scores, quality_thresholds |-> quality_thresholds],
                      Returned(Missing))
         /\ test_results' = test_results
                \o Phase2SimpleTester_test_quality_gates(scores, quality_thresholds)
    /\ UNCHANGED <<similarity_model, evaluator_model, ground_truth_file, earlier, run>>

NextGate ==
    \/ Call_comprehensive_test_quality_gates
    \/ Call_simple_test_quality_gates

SpecGate == InitMetrics /\ [][NextGate]_vars

(* The report of both testers *)

\* generate_test_report of Phase2ComprehensiveTester and of Phase2SimpleTester,
\* with get_recommendations; results is self.test_results.  `x and ...` takes
\* None and 0.0 alike for false.  benchmark_met is <<TRUE>>, <<FALSE>> or
\* absent; a recommendation is its subject and the count its text gives; the
\* printed lines, the timestamp, the times and the categories are left out.
generate_test_report(results) ==
    LET Truthy(x) == x # Missing /\ x # QInt(0)
        Count(Test(_)) == Cardinality({i \in DOMAIN results : Test(results[i])})
        total_tests == Len(results)
        passed_tests == Count(LAMBDA r : r.status = "passed")
        failed_tests == Count(LAMBDA r : r.status = "failed")
        benchmarks_met == Count(LAMBDA r : DictGet(r, "benchmark_met", Missing) = <<TRUE>>)
        quality_gates_passed ==
            Count(LAMBDA r : Truthy(r.score) /\ Truthy(r.threshold)
                             /\ QLe(r.threshold, r.score))
        success_rate == IF total_tests > 0 THEN Q(passed_tests * 100, total_tests)
                        ELSE QInt(0)
        is_success == failed_tests = 0 /\ QLe(QInt(90), success_rate)
        \* get_recommendations
        slow_tests == Count(LAMBDA r : DictGet(r, "benchmark_met", Missing) = <<FALSE>>)
        quality_issues ==
            Count(LAMBDA r : Truthy(r.score) /\ Truthy(r.threshold)
                             /\ QLt(r.score, r.threshold))
        service_health_issues ==
            Count(LAMBDA r : r.category = "service_health" /\ r.status = "failed")
        recommendations ==
            (IF failed_tests > 0 THEN <<[fix |-> "failing tests", count |-> failed_tests]>>
             ELSE <<>>)
            \o (IF slow_tests > 0
                THEN <<[fix |-> "slow operations", count |-> slow_tests]>> ELSE <<>>)
            \o (IF quality_issues > 0
                THEN <<[fix |-> "quality metrics", count |-> quality_issues]>> ELSE <<>>)
            \o (IF service_health_issues > 0
                THEN <<[fix |-> "missing services", count |-> 0]>> ELSE <<>>)
    IN  [summary |->
             [total_tests |-> total_tests, passed_tests |-> passed_tests,
              failed_tests |-> failed_tests, success_rate |-> success_rate,
              benchmarks_met |-> benchmarks_met,
              quality_gates_passed |-> quality_gates_passed,
              verdict |-> IF is_success THEN "success" ELSE "needs_attention"],
         detailed_results |-> results,
         recommendations |->
             IF recommendations = <<>> THEN <<[fix |-> "nothing", count |-> 0]>>
             ELSE recommendations]

\* Phase2ComprehensiveTester.test_embedding_generation, the first test that
\* records a score: a result for each test text, the similarity of two
\* embeddings (np.dot, any value from -1 to 1) against the threshold
\* embedding_similarity, and the batch's result
Run_test_embedding_generation ==
    /\ pc = "idle"
    /\ test_results = <<>>
    /\ \E n \in 1..MaxItems, fast \in BOOLEAN,
          similarity \in {Q(-1, 2), QInt(0), Q(1, 10), Q(1, 2), Q(7, 10), QInt(1)} :
         \E statuses \in [1..n -> {"passed", "failed"}] :
           test_results' =
               [i \in 1..n |->
                   [name |-> "Embedding Generation", category |-> "embeddings",
                    status |-> statuses[i], score |-> Missing, threshold |-> Missing,
                    benchmark_met |-> <<fast>>]]
               \o <<[name |-> "Embedding Similarity Test", category |-> "embeddings",
                     status |-> IF QLt(Q(1, 10), similarity) THEN "passed" ELSE "failed",
                     score |-> similarity,
                     threshold |-> TEST_CONFIG_quality_thresholds.embedding_similarity,
                     benchmark_met |-> <<TRUE>>],
                    [name |-> "Batch Embedding Generation", category |-> "embeddings",
                     status |-> "passed", score |-> Missing, threshold |-> Missing,
                     benchmark_met |-> <<fast>>]>>
    /\ UNCHANGED <<pc, op, args, ret, calls, similarity_model, evaluator_model,
                   ground_truth_file, earlier, run>>

Call_generate_test_report ==
    /\ pc = "idle"
    /\ Completes("generate_test_report", <<>>, Returned(generate_test_report(test_results)))
    /\ ServiceUnchanged

\* run_all_tests: the test that records scores, or none, then the report
SpecReport ==
    InitMetrics /\ [][Run_test_embedding_generation \/ Call_generate_test_report]_vars

\* the results that gate one metric, and the overall gate's results
MetricGates == {i \in DOMAIN test_results : test_results[i].metric # NoMetric}
OverallGates ==
    {i \in DOMAIN test_results : test_results[i].name = "Overall System Quality Gate"}

\* the table's key for a metric in the tester that ran
TableKey(metric_name) ==
    IF op = "comprehensive_test_quality_gates" THEN RagasKey(metric_name) ELSE metric_name

---------------------------------------------------------------------------
(* POST /compare-systems, ragas_service.py *)

\* float comparison: every comparison with nan is False (nan also spreads
\* through - and abs)
FGt(x, y) == ~IsNaN(x) /\ ~IsNaN(y) /\ QLt(y, x)

\* the metrics compared, in the order of the loop
ComparedMetrics == <<"faithfulness", "answer_relevancy", "context_precision",
                     "context_recall">>

\* a winner that gives equal scores to System B
WinnerOfGreaterOrEqual(score_a, score_b) ==
    IF ~FGt(score_a, score_b) THEN "System B" ELSE "System A"

\* "System B" if score_b > score_a else "System A" if score_a > score_b else "Tie"
Winner(score_a, score_b) ==
    IF FGt(score_b, score_a) THEN "System B"
    ELSE IF FGt(score_a, score_b) THEN "System A"
    ELSE "Tie"

\* the loop over the metrics: result_a[metric] and result_b[metric] are the
\* scores RAGAS reports for the metric (np.mean of a score is the score)
Comparison(result_a, result_b) ==
    [metric \in {m \in Range(ComparedMetrics) : m \in DOMAIN result_a /\ m \in DOMAIN result_b}
        |-> LET score_a == result_a[metric]
                score_b == result_b[metric]
            IN  [system_a |-> score_a, system_b |-> score_b,
                 difference |-> IF IsNaN(score_a) \/ IsNaN(score_b) THEN QNaN
                                ELSE QSub(score_b, score_a),
                 winner |-> Winner(score_a, score_b)]]

\* a key that keeps the sign of the difference
SignedDifferenceKey(item) == item.difference

\* key=lambda x: abs(x[1]["difference"])
DifferenceKey(item) == IF IsNaN(item.difference) THEN QNaN ELSE QAbs(item.difference)

\* a max that never looks past its first item
FirstItem(comparison, rest, best) == best

\* max(items, key=...): the first item that none of the later ones exceeds
RECURSIVE MaxItem(_, _, _)
MaxItem(comparison, rest, best) ==
    IF rest = <<>> THEN best
    ELSE MaxItem(comparison, Tail(rest),
                 IF FGt(DifferenceKey(comparison[Head(rest)]),
                        DifferenceKey(comparison[best]))
                 THEN Head(rest) ELSE best)

\* the metrics of a comparison in the order they were inserted
RECURSIVE Inserted(_, _)
Inserted(comparison, order) ==
    IF order = <<>> THEN <<>>
    ELSE (IF Head(order) \in DOMAIN comparison THEN <<Head(order)>> ELSE <<>>)
         \o Inserted(comparison, Tail(order))

\* JSONResponse of the returned dict: json.dumps(..., allow_nan=False) refuses nan
JsonResponse(content) ==
    IF \E m \in DOMAIN content.comparison_results :
           \/ IsNaN(content.comparison_results[m].system_a)
           \/ IsNaN(content.comparison_results[m].system_b)
           \/ IsNaN(content.comparison_results[m].difference)
    THEN Raised("ValueError")
    ELSE Returned(content)

\* file is default_qa.json; evaluated_a and evaluated_b are what RAGAS'
\* evaluate() gives for the two datasets: an exception or the scores.
\* The timestamp of the response is left out.
compare_rag_systems(system_a_responses, system_b_responses, file, evaluated_a, evaluated_b) ==
    IF ~file.exists THEN HTTPException(500)
    ELSE IF Len(system_a_responses) # Len(system_b_responses)
            \/ Len(system_a_responses) # Len(file.data)
         THEN HTTPException(500)
    ELSE IF evaluated_a.kind = "raise" THEN HTTPException(500)
    ELSE IF evaluated_b.kind = "raise" THEN HTTPException(500)
    ELSE LET comparison == Comparison(evaluated_a.scores, evaluated_b.scores)
             items == Inserted(comparison, ComparedMetrics)
         IN  IF items = <<>> THEN HTTPException(500)
             ELSE JsonResponse(
                      [comparison_results |-> comparison,
                       overall_winner |->
                           comparison[MaxItem(comparison, Tail(items), Head(items))].winner,
                       evaluated_samples |-> Len(file.data)])

\* a length check that comes after the evaluation of System A
compare_rag_systems_calls_late_check(system_a_responses, system_b_responses, file, evaluated_a) ==
    IF ~file.exists THEN <<"open">>
    ELSE <<"open", "evaluate_a">>

\* what compare_rag_systems asks for, in order: the file, then evaluate() for
\* System A, then evaluate() for System B
compare_rag_systems_calls(system_a_responses, system_b_responses, file, evaluated_a) ==
    IF ~file.exists THEN <<"open">>
    ELSE IF Len(system_a_responses) # Len(system_b_responses)
            \/ Len(system_a_responses) # Len(file.data)
         THEN <<"open">>
    ELSE IF evaluated_a.kind = "raise" THEN <<"open", "evaluate_a">>
    ELSE <<"open", "evaluate_a", "evaluate_b">>

(* The requests, the files and what evaluate() may give *)

GroundTruthEntry ==
    [question |-> <<"a">>, contexts |-> <<FourWords>>, answer |-> <<"a">>,
     ground_truth |-> <<"a">>, source |-> "manual"]

\* five entries with different questions, without "source"
DEFAULT_GROUND_TRUTH ==
    [i \in 1..5 |->
        [question |-> [j \in 1..i |-> "a"], contexts |-> <<FourWords>>,
         answer |-> <<"a">>, ground_truth |-> <<"a">>]]

\* default_qa.json as earlier runs may have left it: absent, a few manual
\* entries, the entries of DEFAULT_GROUND_TRUTH (five different questions),
\* the default entries and a manual one, three manual entries of which the
\* second has no contexts
GroundTruthFiles ==
    {NoFile}
    \cup {[exists |-> TRUE, data |-> d] : d \in SeqUpTo({GroundTruthEntry}, MaxRows)}
    \cup {[exists |-> TRUE, data |-> DEFAULT_GROUND_TRUTH],
          [exists |-> TRUE, data |-> DEFAULT_GROUND_TRUTH \o <<GroundTruthEntry>>],
          [exists |-> TRUE,
           data |-> <<GroundTruthEntry, [GroundTruthEntry EXCEPT !.contexts = <<>>],
                      GroundTruthEntry>>]}

\* the answers of a system: the same answer for every question
SystemResponses == {[i \in 1..n |-> r] : n \in 0..MaxRows, r \in {<<"a">>, FourWords}}

NotEvaluated == [kind |-> "none", scores |-> EmptyDict]

\* what evaluate() gives: an exception, or the scores RAGAS reports; a metric
\* that could not be computed is nan, a metric may be absent from a result
EvaluateOutcomes ==
    LET RagasResults ==
            [Range(ComparedMetrics) -> {QInt(0), Q(1, 2), QInt(1)}]
            \cup {[m \in Range(ComparedMetrics) |->
                      IF m = "faithfulness" THEN QNaN ELSE Q(1, 2)],
                  [m \in Range(ComparedMetrics) |-> QNaN]}
            \cup {[m \in Range(ComparedMetrics) \ {"faithfulness"} |-> QInt(1)],
                  [m \in Range(ComparedMetrics) \ {"context_recall"} |-> Q(1, 2)],
                  EmptyDict}
    IN  {[kind |-> "raise", scores |-> EmptyDict]}
        \cup {[kind |-> "result", scores |-> s] : s \in RagasResults}

\* the service starts with whatever default_qa.json holds
InitCompare ==
    /\ pc = "idle"
    /\ op = "none"
    /\ args = <<>>
    /\ ret = <<>>
    /\ similarity_model = NoModel
    /\ evaluator_model = NoModel
    /\ ground_truth_file \in GroundTruthFiles
    /\ test_results = <<>>
    /\ calls = <<>>
    /\ earlier = {}
    /\ run = {}

Call_compare_rag_systems ==
    /\ pc = "idle"
    /\ \E system_a_responses \in SystemResponses, system_b_responses \in SystemResponses :
         LET evaluates ==
                 /\ ground_truth_file.exists
                 /\ Len(system_a_responses) = Len(system_b_responses)
                 /\ Len(system_a_responses) = Len(ground_truth_file.data)
         IN  \E evaluated_a \in (IF evaluates THEN EvaluateOutcomes ELSE {NotEvaluated}) :
               \E evaluated_b \in (IF evaluates /\ evaluated_a.kind = "result"
                                   THEN EvaluateOutcomes ELSE {NotEvaluated}) :
                 CompletesAfter("compare_rag_systems",
                           [system_a_responses |-> system_a_responses,
                            system_b_responses |-> system_b_responses,
                            evaluated_a |-> evaluated_a, evaluated_b |-> evaluated_b],
                           compare_rag_systems(system_a_responses, system_b_responses,
                                               ground_truth_file, evaluated_a, evaluated_b),
                           compare_rag_systems_calls(system_a_responses, system_b_responses,
                                                     ground_truth_file, evaluated_a))
    /\ ServiceUnchanged

NextCompare == Call_compare_rag_systems

SpecCompare == InitCompare /\ [][NextCompare]_vars

\* C9: for every compared metric the reported difference is System B's score
\* minus System A's, and the winner is "System B" for a positive difference,
\* "System A" for a negative one and "Tie" exactly for equal scores.
C9_DifferenceAndWinner ==
    (pc = "done" /\ op = "compare_rag_systems" /\ ret.exc = "none")
    => \A metric \in Range(ComparedMetrics) \cap DOMAIN args.evaluated_a.scores
                      \cap DOMAIN args.evaluated_b.scores :
         LET score_a == args.evaluated_a.scores[metric]
             score_b == args.evaluated_b.scores[metric]
         IN  /\ metric \in DOMAIN ret.val.comparison_results
             /\ LET reported == ret.val.comparison_results[metric]
                IN  /\ reported.system_a = score_a
                    /\ reported.system_b = score_b
                    /\ reported.difference = QSub(score_b, score_a)
                    /\ QLt(QInt(0), reported.difference) => reported.winner = "System B"
                    /\ QLt(reported.difference, QInt(0)) => reported.winner = "System A"
                    /\ reported.winner = "Tie" <=> score_a = score_b

\* a comparison that reports all three winners
C9_Witness ==
    /\ pc = "done" /\ op = "compare_rag_systems" /\ ret.exc = "none"
    /\ ret.val.evaluated_samples > 0
    /\ \A w \in {"System A", "System B", "Tie"} :
          \E m \in DOMAIN ret.val.comparison_results :
              ret.val.comparison_results[m].winner = w

SwapWinner(w) ==
    IF w = "System A" THEN "System B" ELSE IF w = "System B" THEN "System A" ELSE w

\* C10: the call with the two systems' responses (and so their evaluations)
\* swapped reports every difference negated and every winner, overall_winner
\* included, swapped, "Tie" staying "Tie".
C10_SwapIsAntisymmetric ==
    (pc = "done" /\ op = "compare_rag_systems" /\ ret.exc = "none")
    => LET swapped == compare_rag_systems(args.system_b_responses, args.system_a_responses,
                                          ground_truth_file, args.evaluated_b,
                                          args.evaluated_a)
       IN  /\ swapped.exc = "none"
           /\ DOMAIN swapped.val.comparison_results = DOMAIN ret.val.comparison_results
           /\ \A m \in DOMAIN ret.val.comparison_results :
                 /\ swapped.val.comparison_results[m].difference
                        = QSub(QInt(0), ret.val.comparison_results[m].difference)
                 /\ swapped.val.comparison_results[m].winner
                        = SwapWinner(ret.val.comparison_results[m].winner)
           /\ swapped.val.overall_winner = SwapWinner(ret.val.overall_winner)

\* a comparison where two metrics share the largest absolute difference and
\* have different winners
C10_Witness ==
    /\ pc = "done" /\ op = "compare_rag_systems" /\ ret.exc = "none"
    /\ ret.val.evaluated_samples > 0
    /\ args.system_a_responses # args.system_b_responses
    /\ \E m1, m2 \in DOMAIN ret.val.comparison_results :
          LET c == ret.val.comparison_results
          IN  /\ c[m1].winner = "System A" /\ c[m2].winner = "System B"
              /\ QAbs(c[m1].difference) = QAbs(c[m2].difference)
              /\ \A m \in DOMAIN c : QLe(QAbs(c[m].difference), QAbs(c[m1].difference))
    /\ ret.val.overall_winner # "Tie"

\* the metrics that both results hold
ComparedByBoth ==
    Range(ComparedMetrics) \cap DOMAIN args.evaluated_a.scores
        \cap DOMAIN args.evaluated_b.scores

\* C11: a comparison that completes has an overall_winner, the winner of a
\* compared metric whose absolute difference is maximal: "Tie" when every
\* difference is zero, and also when a metric is missing from a result.
C11_OverallWinnerOfMaximalDifference ==
    (pc = "done" /\ op = "compare_rag_systems" /\ ret.exc = "none")
    => LET c == ret.val.comparison_results
       IN  /\ DOMAIN c = ComparedByBoth
           /\ \E m \in DOMAIN c :
                 /\ ret.val.overall_winner = c[m].winner
                 /\ \A other \in DOMAIN c :
                       QLe(QAbs(c[other].difference), QAbs(c[m].difference))
           /\ (\A m \in DOMAIN c : c[m].difference = QInt(0))
                 => ret.val.overall_winner = "Tie"

\* a completed comparison of results of which one misses a metric, where the
\* largest difference is not the first one
C11_Witness ==
    /\ pc = "done" /\ op = "compare_rag_systems" /\ ret.exc = "none"
    /\ ComparedByBoth # Range(ComparedMetrics)
    /\ ret.val.overall_winner # ret.val.comparison_results["answer_relevancy"].winner

\* the two response sequences differ in length from each other or from the
\* ground-truth dataset
MismatchedLengths ==
    \/ Len(args.system_a_responses) # Len(args.system_b_responses)
    \/ Len(args.system_a_responses) # Len(ground_truth_file.data)

\* C12: a request with mismatched lengths is rejected before any evaluation
\* is started: neither System A's nor System B's evaluation is invoked.
C12_MismatchRejectedBeforeEvaluation ==
    (pc = "done" /\ op = "compare_rag_systems" /\ MismatchedLengths)
    => /\ ret.exc # "none"
       /\ \A i \in DOMAIN calls : calls[i] \notin {"evaluate_a", "evaluate_b"}

\* a rejected request whose file exists and whose sequences are not empty
C12_Witness ==
    /\ pc = "done" /\ op = "compare_rag_systems" /\ MismatchedLengths
    /\ ground_truth_file.exists /\ ground_truth_file.data # <<>>
    /\ args.system_a_responses # <<>> /\ args.system_b_responses # <<>>
    /\ calls = <<"open">>

---------------------------------------------------------------------------
(* POST /evaluate and POST /batch-evaluate, ragas_service.py *)

\* the metrics of a request that names none
DefaultRagasMetrics == <<"faithfulness", "answer_relevancy", "context_precision",
                         "context_recall">>

\* the names of a list that are keys of available_metrics, in the list's order
Selected(metrics) ==
    SelectSeq(metrics, LAMBDA m : m \in {"faithfulness", "answer_relevancy",
                                         "context_precision", "context_recall",
                                         "answer_correctness"})

\* try: ... except Exception as e: raise HTTPException(status_code=500): an
\* HTTPException raised inside the try block is an Exception and is caught too
ExceptException(outcome) == IF outcome.exc = "none" THEN outcome ELSE HTTPException(500)

\* api_key: get_llm_and_embeddings() finds an OpenAI key; evaluated: what
\* evaluate() gives for the one-row dataset, an exception or a score for
\* each selected metric.  evaluation_details is left out.
evaluate_with_ragas(request, api_key, evaluated) ==
    LET body ==
            IF ~api_key THEN Raised("ValueError")
            ELSE IF Selected(request.metrics) = <<>> THEN HTTPException(400)
            ELSE IF evaluated.kind = "raise" THEN Raised("Exception")
            ELSE Returned([question |-> request.question,
                           metrics |-> [m \in Range(request.metrics)
                                                 \cap DOMAIN evaluated.scores
                                           |-> evaluated.scores[m]]])
        outcome == ExceptException(body)
    IN  \* the JSON response refuses nan
        IF outcome.exc = "none" /\ \E m \in DOMAIN outcome.val.metrics : IsNaN(outcome.val.metrics[m])
        THEN Raised("ValueError")
        ELSE outcome

\* the individual results that a ground-truth batch returns
GroundTruthResultsLimit == 5

\* metrics is Missing for None; file is default_qa.json; evaluated is what
\* evaluate() gives for the dataset: an exception, or for each selected
\* metric the scores of the entries in the dataset's order.  The timestamp
\* is left out; "std" holds the square of std.
batch_evaluate_ground_truth(metrics_arg, file, api_key, evaluated) ==
    LET metrics == IF metrics_arg = <<>> THEN DefaultRagasMetrics ELSE metrics_arg
        reported == Range(metrics) \cap DOMAIN evaluated.scores
        \* np.std, squared: the population variance
        PopulationVariance(column) ==
            QSub(Mean([i \in DOMAIN column |-> QMul(column[i], column[i])]),
                 QMul(Mean(column), Mean(column)))
        questions == [i \in DOMAIN file.data |-> file.data[i].question]
        entries == IF reported = {} THEN 0 ELSE Len(file.data)
        individual_results ==
            [i \in 1..entries |->
                [question_id |-> i - 1, question |-> questions[i],
                 metrics |-> [m \in reported |-> evaluated.scores[m][i]]]]
        body ==
            IF ~file.exists THEN HTTPException(404)
            ELSE IF file.data = <<>> THEN HTTPException(400)
            ELSE IF ~api_key THEN Raised("ValueError")
            ELSE IF evaluated.kind = "raise" THEN Raised("Exception")
            ELSE Returned(
                     [samples_evaluated |-> Len(file.data),
                      metrics_used |-> metrics,
                      aggregate_results |->
                          [m \in reported |->
                              LET scores == evaluated.scores[m]
                              IN  IF \E i \in DOMAIN scores : IsNaN(scores[i])
                                  THEN [mean |-> QNaN, std |-> QNaN, min |-> QNaN, max |-> QNaN]
                                  ELSE [mean |-> Mean(scores),
                                        std |-> PopulationVariance(scores),
                                        min |-> QMinOf(scores),
                                        max |-> QMaxOf(scores)]],
                      individual_results |-> Take(individual_results,
                                                  GroundTruthResultsLimit),
                      total_entries |-> Len(individual_results)])
        outcome == ExceptException(body)
    IN  \* the JSON response refuses nan
        IF outcome.exc = "none" /\ \E m \in reported : IsNaN(outcome.val.aggregate_results[m].mean)
        THEN Raised("ValueError")
        ELSE outcome

(* The requests and what evaluate() may give *)

\* evaluate() of a dataset of n entries with the metrics selected: it raises,
\* or gives every metric the same scores, one for each entry
EvaluatedDataset(selected, n) ==
    {[kind |-> "raise", scores |-> EmptyDict]}
    \cup {[kind |-> "result", scores |-> [m \in Range(selected) |-> column]] :
             column \in {[i \in 1..n |-> QInt(1)], [i \in 1..n |-> QNaN],
                         [i \in 1..n |-> Q(1, i)]}}

Call_evaluate_with_ragas ==
    /\ pc = "idle"
    /\ \E request \in [question : {<<"a">>}, contexts : {<<>>, <<FourWords>>},
                        answer : {<<"a">>}, ground_truth : {Missing, <<"a">>},
                        metrics : {<<>>, DefaultRagasMetrics, <<"faithfulness">>, <<"bogus">>,
                                   <<"bogus", "answer_correctness">>}],
          api_key \in BOOLEAN :
         \E evaluated \in
                (IF api_key /\ Selected(request.metrics) # <<>>
                 THEN {[kind |-> e.kind, scores |-> [m \in DOMAIN e.scores |-> e.scores[m][1]]] :
                          e \in EvaluatedDataset(Selected(request.metrics), 1)}
                 ELSE {NotEvaluated}) :
           Completes("evaluate_with_ragas",
                     [request |-> request, api_key |-> api_key, evaluated |-> evaluated],
                     evaluate_with_ragas(request, api_key, evaluated))
    /\ ServiceUnchanged

Call_batch_evaluate_ground_truth ==
    /\ pc = "idle"
    /\ \E metrics \in {Missing, <<"faithfulness">>, <<"bogus">>,
                        <<"bogus", "answer_correctness">>},
          api_key \in BOOLEAN :
         \E evaluated \in
                (IF api_key /\ ground_truth_file.exists /\ ground_truth_file.data # <<>>
                 THEN EvaluatedDataset(
                          Selected(IF metrics = <<>> THEN DefaultRagasMetrics ELSE metrics),
                          Len(ground_truth_file.data))
                 ELSE {NotEvaluated}) :
           Completes("batch_evaluate_ground_truth",
                     [metrics |-> metrics, api_key |-> api_key, evaluated |-> evaluated],
                     batch_evaluate_ground_truth(metrics, ground_truth_file, api_key,
                                                 evaluated))
    /\ ServiceUnchanged

NextServices ==
    \/ Call_evaluate_with_ragas
    \/ Call_batch_evaluate_ground_truth
    \/ Call_batch_evaluate_dataset

\* the two evaluation services: one call of the RAGAS service's evaluation or
\* of either service's batch
SpecServices == InitCompare /\ [][NextServices]_vars

(* GET and POST /ground-truth, and the runs over the ground-truth file.  No
   handler of ragas_service.py awaits, so a handler is not interrupted by
   another request of the event loop; evaluate() is the one call during which
   RAGAS may let the loop serve other requests, so a run is two steps: it
   loads the file, and it evaluates what it has loaded and answers. *)

\* how many entries are added to the file
MaxAdded == 2

\* GET /ground-truth
Call_get_ground_truth_data ==
    /\ pc \in {"idle", "running"}
    /\ LET stored ==
               IF ground_truth_file.exists THEN ground_truth_file
               ELSE [exists |-> TRUE, data |-> DEFAULT_GROUND_TRUTH]
       IN  /\ ground_truth_file' = stored
           /\ op' = "get_ground_truth_data"
           /\ args' = <<>>
           /\ ret' = Returned([ground_truth_entries |-> Len(stored.data),
                               data |-> stored.data])
    /\ calls' = <<>>
    /\ UNCHANGED <<pc, similarity_model, evaluator_model, test_results, earlier, run>>

Call_add_ground_truth_entry_at_front ==
    /\ pc \in {"idle", "running"}
    /\ \E entry \in {GroundTruthEntry, [GroundTruthEntry EXCEPT !.question = <<"A">>]} :
         LET data == IF ground_truth_file.exists THEN ground_truth_file.data ELSE <<>>
             stored == <<entry>> \o data
         IN  /\ Cardinality({i \in DOMAIN data : "source" \in DOMAIN data[i]}) < MaxAdded
             /\ ground_truth_file' = [exists |-> TRUE, data |-> stored]
             /\ op' = "add_ground_truth_entry"
             /\ args' = [entry |-> entry]
             /\ ret' = Returned([status |-> "success", total |-> Len(stored)])
    /\ calls' = <<>>
    /\ UNCHANGED <<pc, similarity_model, evaluator_model, test_results, earlier, run>>

\* POST /ground-truth; total is the number in the message
Call_add_ground_truth_entry ==
    /\ pc \in {"idle", "running"}
    /\ \E entry \in {GroundTruthEntry, [GroundTruthEntry EXCEPT !.question = <<"A">>]} :
         LET data == IF ground_truth_file.exists THEN ground_truth_file.data ELSE <<>>
             stored == Append(data, entry)
         IN  /\ Cardinality({i \in DOMAIN data : "source" \in DOMAIN data[i]}) < MaxAdded
             /\ ground_truth_file' = [exists |-> TRUE, data |-> stored]
             /\ op' = "add_ground_truth_entry"
             /\ args' = [entry |-> entry]
             /\ ret' = Returned([status |-> "success", total |-> Len(stored)])
    /\ calls' = <<>>
    /\ UNCHANGED <<pc, similarity_model, evaluator_model, test_results, earlier, run>>

\* the start of batch_evaluate_ground_truth or of compare_rag_systems, up to
\* json.load(f): the run holds the file as it is now
Load_ground_truth ==
    /\ pc = "idle"
    /\ \/ \E metrics \in {Missing, <<"faithfulness">>}, api_key \in BOOLEAN :
            run' = {[op |-> "batch_evaluate_ground_truth",
                     request |-> [metrics |-> metrics, api_key |-> api_key],
                     file |-> ground_truth_file]}
       \/ \E system_a_responses \in SystemResponses, system_b_responses \in SystemResponses :
            run' = {[op |-> "compare_rag_systems",
                     request |-> [system_a_responses |-> system_a_responses,
                                  system_b_responses |-> system_b_responses],
                     file |-> ground_truth_file]}
    /\ pc' = "running"
    /\ UNCHANGED <<op, args, ret, calls, similarity_model, evaluator_model,
                   ground_truth_file, test_results, earlier>>

Evaluate_loaded_reading_again ==
    /\ pc = "running"
    /\ \E r \in run :
         LET file == ground_truth_file
         IN  \/ /\ r.op = "batch_evaluate_ground_truth"
                /\ \E evaluated \in
                        (IF r.request.api_key /\ file.exists /\ file.data # <<>>
                         THEN {[kind |-> "raise", scores |-> EmptyDict],
                               [kind |-> "result",
                                scores |->
                                    [k \in Range(Selected(IF r.request.metrics = <<>>
                                                          THEN DefaultRagasMetrics
                                                          ELSE r.request.metrics)) |->
                                        [i \in DOMAIN file.data |-> Q(1, 2)]]]}
                         ELSE {NotEvaluated}) :
                      Completes(r.op,
                                [metrics |-> r.request.metrics,
                                 api_key |-> r.request.api_key, evaluated |-> evaluated],
                                batch_evaluate_ground_truth(
                                    r.request.metrics, file, r.request.api_key, evaluated))
             \/ /\ r.op = "compare_rag_systems"
                /\ \E evaluated_a, evaluated_b \in
                        (IF /\ file.exists
                            /\ Len(r.request.system_a_responses)
                                 = Len(r.request.system_b_responses)
                            /\ Len(r.request.system_a_responses) = Len(file.data)
                         THEN {[kind |-> "raise", scores |-> EmptyDict],
                               [kind |-> "result",
                                scores |-> [k \in Range(ComparedMetrics) |-> Q(1, 2)]]}
                         ELSE {NotEvaluated}) :
                      Completes(r.op,
                                [system_a_responses |-> r.request.system_a_responses,
                                 system_b_responses |-> r.request.system_b_responses,
                                 evaluated_a |-> evaluated_a, evaluated_b |-> evaluated_b],
                                compare_rag_systems(
                                    r.request.system_a_responses,
                                    r.request.system_b_responses, file,
                                    evaluated_a, evaluated_b))
    /\ run' = {}
    /\ UNCHANGED <<similarity_model, evaluator_model, ground_truth_file, test_results,
                   earlier>>

\* the rest of the run: evaluate() of the dataset made of ground_truth_data,
\* and the answer
Evaluate_loaded ==
    /\ pc = "running"
    /\ \E r \in run :
         LET file == r.file
         IN  \/ /\ r.op = "batch_evaluate_ground_truth"
                /\ \E evaluated \in
                        (IF r.request.api_key /\ file.exists /\ file.data # <<>>
                         THEN {[kind |-> "raise", scores |-> EmptyDict],
                               [kind |-> "result",
                                scores |->
                                    [k \in Range(Selected(IF r.request.metrics = <<>>
                                                          THEN DefaultRagasMetrics
                                                          ELSE r.request.metrics)) |->
                                        [i \in DOMAIN file.data |-> Q(1, 2)]]]}
                         ELSE {NotEvaluated}) :
                      Completes(r.op,
                                [metrics |-> r.request.metrics,
                                 api_key |-> r.request.api_key, evaluated |-> evaluated],
                                batch_evaluate_ground_truth(
                                    r.request.metrics, file, r.request.api_key, evaluated))
             \/ /\ r.op = "compare_rag_systems"
                /\ \E evaluated_a, evaluated_b \in
                        (IF /\ file.exists
                            /\ Len(r.request.system_a_responses)
                                 = Len(r.request.system_b_responses)
                            /\ Len(r.request.system_a_responses) = Len(file.data)
                         THEN {[kind |-> "raise", scores |-> EmptyDict],
                               [kind |-> "result",
                                scores |-> [k \in Range(ComparedMetrics) |-> Q(1, 2)]]}
                         ELSE {NotEvaluated}) :
                      Completes(r.op,
                                [system_a_responses |-> r.request.system_a_responses,
                                 system_b_responses |-> r.request.system_b_responses,
                                 evaluated_a |-> evaluated_a, evaluated_b |-> evaluated_b],
                                compare_rag_systems(
                                    r.request.system_a_responses,
                                    r.request.system_b_responses, file,
                                    evaluated_a, evaluated_b))
    /\ run' = {}
    /\ UNCHANGED <<similarity_model, evaluator_model, ground_truth_file, test_results,
                   earlier>>

\* requests to /ground-truth and runs, one after another, the requests to
\* /ground-truth also during a run
SpecGroundTruth ==
    InitMetrics
    /\ [][\/ Call_get_ground_truth_data
          \/ Call_add_ground_truth_entry
          \/ Load_ground_truth
          \/ Evaluate_loaded
          \/ Next_request]_vars

\* C13: a request rejected as a caller error is reported with its 4xx status:
\* 400 for evaluate_with_ragas without a recognised metric and for
\* compare_rag_systems with mismatched lengths, 404 for a batch over a
\* dataset or ground-truth file that does not exist.
C13_CallerErrorKeepsItsStatus ==
    pc = "done"
    => /\ (op = "evaluate_with_ragas" /\ args.api_key
              /\ Selected(args.request.metrics) = <<>>)
            => (ret.exc = "HTTPException" /\ ret.status_code = 400)
       /\ (op = "batch_evaluate_ground_truth" /\ ~ground_truth_file.exists)
            => (ret.exc = "HTTPException" /\ ret.status_code = 404)
       /\ (op = "batch_evaluate_dataset" /\ ~args.data_file.exists)
            => (ret.exc = "HTTPException" /\ ret.status_code = 404)
       /\ (op = "compare_rag_systems" /\ ground_truth_file.exists /\ MismatchedLengths)
            => (ret.exc = "HTTPException" /\ ret.status_code = 400)

Smaller(a, b) == IF a < b THEN a ELSE b

\* C14: the individual_results of a batch are the first per-entry results in
\* the dataset's order, the i-th record being the i-th entry's: at most 10 of
\* batch_evaluate_dataset, at most 5 of batch_evaluate_ground_truth; the count
\* of evaluated entries covers every evaluated entry.
C14_IndividualResultsArePrefixInInputOrder ==
    (pc = "done" /\ ret.exc = "none")
    => /\ op = "batch_evaluate_dataset"
            => LET rows == args.data_file.rows
                   evaluated == Smaller(Len(rows), SampleLimit)
                   returned == ret.val.individual_results
               IN  /\ ret.val.evaluated_samples = evaluated
                   /\ Len(returned) = Smaller(evaluated, IndividualResultsLimit)
                   /\ \A i \in DOMAIN returned :
                        /\ returned[i].sample_id = i - 1
                        /\ returned[i].query = RowQuery(rows[i])
                        /\ returned[i].metrics = EvaluateRow(rows[i], BatchMetrics).val
       /\ op = "batch_evaluate_ground_truth"
            => LET data == ground_truth_file.data
                   returned == ret.val.individual_results
               IN  /\ ret.val.samples_evaluated = Len(data)
                   /\ ret.val.total_entries \in {0, Len(data)}
                   /\ Len(returned) = Smaller(ret.val.total_entries, GroundTruthResultsLimit)
                   /\ \A i \in DOMAIN returned :
                        /\ returned[i].question_id = i - 1
                        /\ returned[i].question = data[i].question
                        /\ \A m \in DOMAIN returned[i].metrics :
                             returned[i].metrics[m] = args.evaluated.scores[m][i]

\* a batch over a dataset of more rows than it returns, with rows that differ
C14_Witness ==
    /\ pc = "done" /\ op = "batch_evaluate_dataset" /\ ret.exc = "none"
    /\ ret.val.evaluated_samples > Len(ret.val.individual_results)
    /\ ret.val.individual_results[1].query # ret.val.individual_results[2].query
    /\ ret.val.individual_results[1].metrics # ret.val.individual_results[2].metrics

\* two permutations that generate every permutation of the rows
Transposed(rows) ==
    IF Len(rows) < 2 THEN rows ELSE <<rows[2], rows[1]>> \o SubSeq(rows, 3, Len(rows))
Rotated(rows) == IF rows = <<>> THEN rows ELSE Tail(rows) \o <<Head(rows)>>

\* the batch over other rows succeeds with the aggregates of this batch
SameAggregates(rows) ==
    LET other == batch_evaluate_dataset([exists |-> TRUE, rows |-> rows], args.metrics)
    IN  other.exc = "none" /\ other.val.aggregate_metrics = ret.val.aggregate_metrics

LexicalFunctions ==
    {"calculate_basic_relevance", "calculate_context_utilization",
     "calculate_answer_completeness", "calculate_faithfulness",
     "calculate_answer_similarity"}

\* an argument of the call has no token: a string without a word, or a list
\* of contexts without a word
SomeArgumentHasNoToken ==
    \E k \in DOMAIN args :
        IF k = "contexts" THEN WordsOfAll(args[k]) = {} ELSE Words(args[k]) = {}

\* C16: a lexical metric function returns a value for any strings and never
\* raises; when an argument has no token, a string of whitespace included, it
\* returns 0.0.
C16_LexicalMetricsAreTotal ==
    (pc = "done" /\ op \in LexicalFunctions)
    => /\ ret.exc = "none"
       /\ SomeArgumentHasNoToken => ret.val = QInt(0)

\* the entries of the batch's dataset, and those with an empty contexts field
BatchEntries ==
    IF op = "batch_evaluate_dataset" THEN args.data_file.rows ELSE ground_truth_file.data
EmptyContexts ==
    {i \in DOMAIN BatchEntries :
        \/ DictGet(BatchEntries[i], "context", <<"a">>) = <<>>
        \/ DictGet(BatchEntries[i], "contexts", <<"a">>) = <<>>}

\* C17: in a batch where some entry has an empty contexts field, the run does
\* not raise, that entry is recorded as an error and left out of the
\* aggregates, and the other entries are aggregated (3 entries, the second
\* empty: 2 aggregated and 1 error).
C17_EmptyContextsEntryIsRecordedAsError ==
    (/\ pc = "done" /\ op \in {"batch_evaluate_dataset", "batch_evaluate_ground_truth"}
     /\ EmptyContexts # {} /\ EmptyContexts # DOMAIN BatchEntries
     /\ op = "batch_evaluate_ground_truth" => args.api_key)
    => /\ ret.exc = "none"
       /\ "errors" \in DOMAIN ret.val
       /\ Len(ret.val.errors) = Cardinality(EmptyContexts)
       /\ LET aggregated == Len(BatchEntries) - Cardinality(EmptyContexts)
          IN  IF op = "batch_evaluate_dataset"
              THEN ret.val.evaluated_samples = aggregated
              ELSE ret.val.samples_evaluated = aggregated

\* C18: what evaluate_image_relevance posts to the provider's /embed/text and
\* what it reads from the answer fit the provider (body {texts: [string]},
\* answer {embeddings: [[float]]}): against the running provider the request
\* is accepted and the query embedding is obtained, so the result is not the
\* fallback of a failed request.
C18_QueryEmbeddingRequestFitsProvider ==
    (pc = "done" /\ op = "evaluate_image_relevance" /\ "request_body" \in DOMAIN args
        /\ args.images # <<>>)
    => /\ DOMAIN args.request_body = {"texts"}
       /\ args.query_response.status_code = 200
       /\ args.query_response.embedding # Missing

\* C19: calculate_faithfulness(contexts, answer) is the share of the answer's
\* lower-cased whitespace tokens that are tokens of the contexts: 1.0 when the
\* answer has a token and each of its tokens occurs in the contexts, 0.0 when
\* answer and contexts share no token.
C19_FaithfulnessIsShareOfAnswerTokensInContexts ==
    (pc = "done" /\ op = "calculate_faithfulness")
    => LET answer_tokens == Words(args.answer)
           context_tokens == WordsOfAll(args.contexts)
       IN  /\ ret.exc = "none"
           /\ answer_tokens # {}
                => ret.val = Q(Cardinality(answer_tokens \cap context_tokens),
                               Cardinality(answer_tokens))
           /\ (answer_tokens # {} /\ answer_tokens \subseteq context_tokens)
                => ret.val = QInt(1)
           /\ answer_tokens \cap context_tokens = {} => ret.val = QInt(0)

\* an answer of two tokens, one of them in the contexts in the other case
C19_Witness ==
    /\ pc = "done" /\ op = "calculate_faithfulness"
    /\ ret.val = Q(1, 2)
    /\ \E i \in DOMAIN args.answer : args.answer[i] = "A"

\* C20: without contexts, pairs or images the score is neutral or perfect:
\* calculate_basic_relevance(q, []) is 0.0 for every query q, of either
\* evaluator; evaluate_cross_modal_consistency([]) is 1.0;
\* evaluate_visual_grounding(answer, []) is 1.0 for every answer.
C20_AbsenceIsNeutralOrPerfect ==
    (pc = "done" /\ ret.exc = "none")
    => /\ (op = "calculate_basic_relevance" /\ args.contexts = <<>>)
            => /\ ret.val = QInt(0)
               /\ BasicRAGMetrics_calculate_basic_relevance(args.query, args.contexts)
                    = QInt(0)
       /\ (op = "evaluate_cross_modal_consistency" /\ args.cross_modal_pairs = <<>>)
            => ret.val = QInt(1)
       /\ (op = "evaluate_visual_grounding" /\ args.images = <<>>)
            => ret.val = QInt(1)

\* an answer with a visual keyword, and no image to ground it in
C20_Witness ==
    /\ pc = "done" /\ op = "evaluate_visual_grounding"
    /\ args.images = <<>> /\ <<"k">> \in Words(args.answer)
    /\ ret.val = QInt(1)

\* C21: generate_multimodal_recommendations returns, in the order
\* image_relevance, cross_modal_consistency, visual_grounding,
\* basic_relevance, exactly the recommendations whose rule holds:
\* image_relevance < 0.7, cross_modal_consistency < 0.6, visual_grounding <
\* 0.5, basic_relevance < 0.7 (a missing basic_relevance counts as 0); a
\* score equal to its constant gives no recommendation.
C21_RecommendationsAreTheRulesThatHold ==
    (pc = "done" /\ op = "generate_multimodal_recommendations")
    => LET r == args.result
           basic_relevance ==
               IF "basic_relevance" \in DOMAIN r.ragas_metrics
               THEN r.ragas_metrics.basic_relevance ELSE QInt(0)
           RuleHolds(name) ==
               \/ name = "image_relevance" /\ ~QLe(Q(7, 10), r.image_relevance)
               \/ name = "cross_modal_consistency"
                    /\ ~QLe(Q(6, 10), r.cross_modal_consistency)
               \/ name = "visual_grounding" /\ ~QLe(Q(1, 2), r.visual_grounding)
               \/ name = "basic_relevance" /\ ~QLe(Q(7, 10), basic_relevance)
       IN  /\ ret.exc = "none"
           /\ ret.val = SelectSeq(<<"image_relevance", "cross_modal_consistency",
                                    "visual_grounding", "basic_relevance">>, RuleHolds)

\* two scores at their constants, two below: the second and fourth rule only
C21_Witness ==
    /\ pc = "done" /\ op = "generate_multimodal_recommendations"
    /\ args.result.image_relevance = Q(7, 10)
    /\ args.result.visual_grounding = Q(1, 2)
    /\ ret.val = <<"cross_modal_consistency", "basic_relevance">>

C23_BatchHasOneRecordForEachRequest ==
    (pc = "done" /\ op = "batch_evaluate")
    => LET requests == args.evaluation_requests
           Alone(i) ==
               batch_evaluate(<<requests[i]>>, evaluator_model, args.ragas_response,
                              args.query_response).val.batch_results[1]
           Body(record) == [k \in DOMAIN record \ {"index"} |-> record[k]]
       IN  /\ ret.exc = "none"
           /\ DOMAIN ret.val.batch_results = DOMAIN requests
           /\ \A i \in DOMAIN requests :
                  LET record == ret.val.batch_results[i]
                  IN  /\ record.index = i - 1
                      /\ DOMAIN record \in {{"index", "result"}, {"index", "error"}}
                      /\ Body(record) = Body(Alone(i))

\* a request whose evaluation raises, followed by one that gets a result
C23_Witness ==
    /\ pc = "done" /\ op = "batch_evaluate"
    /\ Len(args.evaluation_requests) = 2
    /\ DictGet(args.evaluation_requests[1], "type", "multimodal") = "multimodal"
    /\ "data" \in DOMAIN args.evaluation_requests[1]
    /\ "query" \in DOMAIN args.evaluation_requests[1].data
    /\ "error" \in DOMAIN ret.val.batch_results[1]
    /\ "result" \in DOMAIN ret.val.batch_results[2]

\* C24: with at least one image, evaluate_visual_grounding returns the
\* share of the images that are reflected in the answer, an image being
\* reflected when the answer holds a visual keyword or one of the words of
\* the image's extracted text; when every image's extracted text is
\* reflected the result is 1.0, with or without a visual keyword.
C24_GroundingIsShareOfReflectedImages ==
    (pc = "done" /\ op = "evaluate_visual_grounding" /\ args.images # <<>>)
    => LET answer == Lower(args.answer)
           HasKeyword == \E keyword \in visual_keywords : Contains(answer, keyword)
           SharesWord(image) ==
               /\ image.extracted_text # Missing
               /\ \E word \in Range(Take(Split(Lower(image.extracted_text)),
                                          GroundingWords)) :
                      Contains(answer, word)
           reflected ==
               {i \in DOMAIN args.images : HasKeyword \/ SharesWord(args.images[i])}
       IN  ret.val = Q(Cardinality(reflected), Len(args.images))

\* C25: for pairs, evaluate_cross_modal_consistency returns the mean of
\* min(confidence * w, 1.0) over the pairs, w being 1.2 for the
\* relationship_type caption, 1.0 for reference and 0.8 for any other or
\* none (a pair without confidence counts with 0.5); it raises for no
\* relationship_type.
C25_ConsistencyIsMeanOfWeightedConfidence ==
    (pc = "done" /\ op = "evaluate_cross_modal_consistency"
        /\ args.cross_modal_pairs # <<>>)
    => LET pairs == args.cross_modal_pairs
           confidence(i) ==
               IF pairs[i].confidence = Missing THEN Q(1, 2) ELSE pairs[i].confidence
           w(i) == IF "relationship_type" \notin DOMAIN pairs[i] THEN Q(8, 10)
                   ELSE CASE pairs[i].relationship_type = "caption" -> Q(12, 10)
                          [] pairs[i].relationship_type = "reference" -> QInt(1)
                          [] OTHER -> Q(8, 10)
           score(i) == IF QLe(QInt(1), QMul(confidence(i), w(i))) THEN QInt(1)
                       ELSE QMul(confidence(i), w(i))
       IN  /\ ret.exc = "none"
           /\ ret.val = QDivInt(QSum([i \in DOMAIN pairs |-> score(i)]), Len(pairs))

\* a caption whose weighted confidence is capped, and a pair of an unknown
\* relationship_type
C25_Witness ==
    /\ pc = "done" /\ op = "evaluate_cross_modal_consistency"
    /\ Len(args.cross_modal_pairs) = 2
    /\ args.cross_modal_pairs[1] = [relationship_type |-> "caption", confidence |-> Q(9, 10)]
    /\ args.cross_modal_pairs[2] = [relationship_type |-> "unknown", confidence |-> Q(1, 2)]
    /\ ret.val = Q(7, 10)

\* C26: with relevant ids, evaluate_precision_recall gives precision_at_k
\* and recall_at_k an entry for exactly the k of 1, 3, 5, 10 that are at
\* most the number of results: the number of relevant ids among the ids of
\* the first k results, over k and over the number of relevant ids;
\* map_score is precision_at_k[5], or 0.0 with fewer than 5 results;
\* recall_at_k does not decrease with k.  Without relevant ids both are
\* empty and map_score is 0.0.
C26_PrecisionAndRecallAtK ==
    (pc = "done" /\ op = "evaluate_precision_recall")
    => LET results == args.search_results
           relevant == {args.relevant_ids[i] : i \in DOMAIN args.relevant_ids}
           ks == IF relevant = {} THEN {}
                 ELSE {k \in {1, 3, 5, 10} : k <= Len(results)}
           Found(k) ==
               {id \in relevant :
                   \E i \in 1..k : "node_id" \in DOMAIN results[i]
                                     /\ results[i].node_id = id}
           precision == ret.val.precision_at_k
           recall == ret.val.recall_at_k
       IN  /\ DOMAIN precision = ks /\ DOMAIN recall = ks
           /\ \A k \in ks :
                  /\ precision[k] = Q(Cardinality(Found(k)), k)
                  /\ recall[k] = Q(Cardinality(Found(k)), Cardinality(relevant))
           /\ ret.val.map_score = IF 5 \in ks THEN precision[5] ELSE QInt(0)
           /\ \A k1, k2 \in ks : k1 < k2 => QLe(recall[k1], recall[k2])

\* ten results: every k has its entry, a relevant id comes up more than
\* once among the first five, and recall grows from k = 1 to k = 3
C26_Witness ==
    /\ pc = "done" /\ op = "evaluate_precision_recall"
    /\ Len(args.search_results) = 10
    /\ DOMAIN ret.val.precision_at_k = {1, 3, 5, 10}
    /\ ret.val.map_score = Q(2, 5)
    /\ args.search_results[1] = args.search_results[4]
    /\ ret.val.recall_at_k[1] = Q(1, 2) /\ ret.val.recall_at_k[3] = QInt(1)

\* C27: a batch or comparative run loads the ground-truth file once, when
\* it starts, as it is then, and evaluates the entries it has loaded:
\* samples_evaluated (evaluated_samples) and the questions of its results
\* are those of the loaded entries, whatever was added during the run; and
\* no step takes a stored entry out of the file, so a later run loads
\* every entry added before it starts.
C27_RunEvaluatesWhatItLoadedAtItsStart ==
    [][/\ (run = {} /\ run' # {}) => \A r \in run' : r.file = ground_truth_file
       /\ (run # {} /\ run' # {}) => run' = run
       /\ (run # {} /\ run' = {})
            => \A r \in run :
                  /\ op' = r.op
                  /\ (ret'.exc = "none" /\ op' = "batch_evaluate_ground_truth")
                       => /\ ret'.val.samples_evaluated = Len(r.file.data)
                          /\ \A i \in DOMAIN ret'.val.individual_results :
                                 ret'.val.individual_results[i].question
                                     = r.file.data[i].question
                  /\ (ret'.exc = "none" /\ op' = "compare_rag_systems")
                       => ret'.val.evaluated_samples = Len(r.file.data)
       /\ ground_truth_file.exists
            => /\ ground_truth_file'.exists
               /\ Len(ground_truth_file.data) <= Len(ground_truth_file'.data)
               /\ SubSeq(ground_truth_file'.data, 1, Len(ground_truth_file.data))
                    = ground_truth_file.data]_vars

\* a batch run has answered for the entries it loaded, and the file holds an
\* entry that was added during the run
C27_Witness ==
    /\ pc = "done" /\ op = "batch_evaluate_ground_truth" /\ ret.exc = "none"
    /\ ret.val.samples_evaluated = 1
    /\ Len(ground_truth_file.data) = 2

\* C30: add_ground_truth_entry appends its entry at the end of the stored
\* list (of the empty list when there is no file), leaves the entries before
\* it as they are, and reports the earlier count plus one;
\* get_ground_truth_data leaves a stored list as it is, stores the default
\* entries when there is no file, and returns what is stored.
C30_AddAppendsAndGetKeeps ==
    [][LET data == IF ground_truth_file.exists THEN ground_truth_file.data ELSE <<>>
           answered == <<op, ret, ground_truth_file>>' # <<op, ret, ground_truth_file>>
       IN  /\ (op' = "add_ground_truth_entry" /\ answered)
                => /\ ground_truth_file'.exists
                   /\ ground_truth_file'.data = data \o <<args'.entry>>
                   /\ ret'.val.total = Len(data) + 1
           /\ (op' = "get_ground_truth_data" /\ answered)
                => /\ ground_truth_file'
                        = IF ground_truth_file.exists THEN ground_truth_file
                          ELSE [exists |-> TRUE, data |-> DEFAULT_GROUND_TRUTH]
                   /\ ret'.val.data = ground_truth_file'.data
                   /\ ret'.val.ground_truth_entries = Len(ground_truth_file'.data)
           /\ (op' \notin {"add_ground_truth_entry", "get_ground_truth_data"})
                => ground_truth_file' = ground_truth_file]_vars

\* two different entries added, one after the other, to the default entries
\* that a get has stored
C30_Witness ==
    /\ op = "add_ground_truth_entry"
    /\ Len(ground_truth_file.data) = 7
    /\ ground_truth_file.data[1] = DEFAULT_GROUND_TRUTH[1]
    /\ ground_truth_file.data[6] # ground_truth_file.data[7]
    /\ ret.val.total = 7

\* C28: once start-up has loaded the similarity model, a call of
\* evaluate_multimodal_faithfulness with contexts uses the loaded model: the
\* evaluator's handle is the module's, and the result is not the 0.7 given
\* without a model.
C28_LoadedModelIsUsed ==
    (pc = "done" /\ op = "evaluate_multimodal_faithfulness"
        /\ similarity_model # NoModel /\ args.contexts # <<>>)
    => /\ evaluator_model = similarity_model
       /\ ret.val # Q(7, 10)

====
